---- MODULE Spec2Model ----
(***************************************************************************)
(* Listing extraction and normalization pipeline of the Bangalore property *)
(* scraper (src/scraper/scraper.py, with the older src/scraper.py).        *)
(*                                                                         *)
(* Python values are tagged tuples: None is <<"None">>, a str is           *)
(* <<"str", chars>> with chars a sequence of one-character strings, and a  *)
(* number is <<"num", n>>.  A price or any other float is kept in fixed    *)
(* point: n stands for n / Scale, so 71 lakh is 7100 and "2.11" is 211.    *)
(***************************************************************************)
EXTENDS Integers, Sequences, FiniteSets, TLC

VARIABLES
  vin,      \* verify_and_clean_property: the record handed in
  vout,     \* its result (PyNone before the call and when the record is dropped)
  vout2,    \* the result of a second call on vout
  vpc,      \* "in", "once", "twice" ("idle" where the verifier is not under study)
  pin,      \* parse_price_range: the pieces the text is put together from
  pout,     \* its result <<branch, min, max>>
  ppc,      \* "in", "new" (src/scraper/scraper.py), "legacy" (src/scraper.py)
  fin,      \* _format_price_display: the pair <<min_p, max_p>>
  fout,     \* the display text
  fpc,      \* "in", "done"
  hin,      \* _name_and_locality_from_href: the parts of the href handed in
  hout,     \* its result <<name, locality>>
  hpc,      \* "in", "done"
  cin,      \* _card_text_for_link: the text of the anchor and the layers around it
  cout,     \* the block it returns
  cpc,      \* "in", "done"
  tin,      \* _extract_from_raw_html: the urls of the document handed in
  tout,     \* the records it returns
  tpc,      \* "in", "done"
  lin,      \* scrape_99acres_list: the page handed in
  lfound,   \* the records its anchors gave
  lout,     \* the records it returns
  lpc,      \* "in", "done"
  use_playwright, \* fetch: whether the browser is tried first
  rendered, \* what _fetch_playwright gives for the url
  served,   \* what requests.get gives at each attempt
  attempt,  \* fetch: the attempt of the loop
  trace,    \* the browser run, the requests and the sleeps of fetch, in their order
  fetched,  \* what fetch returned
  fetch_pc, \* fetch: start, http, done
  site,     \* the web: for each 99acres category the pages it serves
  nb_site,  \* the web: the pages of the NoBroker listing
  max_pages,       \* --max-pages
  do_skip_enrich,  \* FALSE with --enrich
  rpc,      \* the run's position: "listing", "pages", "nobroker", "merge", "enrich99",
            \* "enrichnb", "returned", "written"
  cat,      \* the category of SOURCE_URLS at hand
  page,     \* the page number of the pagination loop
  all_properties,  \* run_scraper: everything scraped so far
  requested,       \* the listing pages asked for: category (0: NoBroker), page number,
                   \* and how many records had been collected before
  unique,   \* run_scraper: the list it returns
  listed,   \* the list as it was before the enrichment
  ei,       \* the place in acres_list or nobroker_list the enrichment has come to
  enriched, \* the enrichments so far: the place in unique and what the fetch gave
  data      \* main: the properties written to OUTPUT_JSON

vars_verify == <<vin, vout, vout2, vpc>>
vars_price == <<pin, pout, ppc>>
vars_format == <<fin, fout, fpc>>
vars_slug == <<hin, hout, hpc>>
vars_card == <<cin, cout, cpc>>
vars_raw == <<tin, tout, tpc>>
vars_list == <<lin, lfound, lout, lpc>>
vars_fetch == <<use_playwright, rendered, served, attempt, trace, fetched, fetch_pc>>
vars_pipeline ==
  <<site, nb_site, max_pages, do_skip_enrich, rpc, cat, page, all_properties, requested, unique,
    listed, ei, enriched, data>>
vars == <<vars_verify, vars_price, vars_format, vars_pipeline, vars_slug, vars_card, vars_raw, vars_list, vars_fetch>>

(***************************************************************************)
(* Python values                                                           *)
(***************************************************************************)
PyNone == <<"None">>
PyStr(s) == <<"str", s>>
PyNum(n) == <<"num", n>>
IsNone(v) == v[1] = "None"
IsStr(v) == v[1] = "str"
IsNum(v) == v[1] = "num"
\* `v or ""` for a str-or-None value
OrEmpty(v) == IF IsStr(v) THEN v[2] ELSE <<>>

\* fixed point: a float x is the integer x * Scale
Scale == 10 * 10
Rupee == "Rs"

(***************************************************************************)
(* str methods and the regular expressions the code uses on them           *)
(***************************************************************************)
UpperChars == <<"A","B","C","D","E","F","G","H","I","J","K","L","M","N","O","P","Q","R","S","T","U","V","W","X","Y","Z">>
LowerChars == <<"a","b","c","d","e","f","g","h","i","j","k","l","m","n","o","p","q","r","s","t","u","v","w","x","y","z">>
DigitChars == <<"0","1","2","3","4","5","6","7","8","9">>
Range(s) == { s[i] : i \in 1..Len(s) }
IsUpper(c) == c \in Range(UpperChars)
IsLower(c) == c \in Range(LowerChars)
IsDigit(c) == c \in Range(DigitChars)
IsSpace(c) == c \in {" ", "\t"}
Lower(c) == IF IsUpper(c) THEN LowerChars[CHOOSE i \in 1..26 : UpperChars[i] = c] ELSE c
Upper(c) == IF IsLower(c) THEN UpperChars[CHOOSE i \in 1..26 : LowerChars[i] = c] ELSE c
lower(s) == [i \in 1..Len(s) |-> Lower(s[i])]
upper(s) == [i \in 1..Len(s) |-> Upper(s[i])]
\* s[:n]
Prefix(s, n) == SubSeq(s, 1, IF n < Len(s) THEN n ELSE Len(s))
\* s[-n:]
Suffix(s, n) == SubSeq(s, IF Len(s) > n THEN Len(s) - n + 1 ELSE 1, Len(s))

\* s.strip(), s.lstrip(), s.rstrip()
lstrip(s) ==
  LET ink == { i \in 1..Len(s) : ~IsSpace(s[i]) } IN
  IF ink = {} THEN <<>> ELSE SubSeq(s, CHOOSE i \in ink : \A j \in ink : i <= j, Len(s))
rstrip(s) ==
  LET ink == { i \in 1..Len(s) : ~IsSpace(s[i]) } IN
  IF ink = {} THEN <<>> ELSE SubSeq(s, 1, CHOOSE i \in ink : \A j \in ink : i >= j)
strip(s) == rstrip(lstrip(s))

\* pat (lower case) matches s at position i, ignoring case
MatchAtI(s, i, pat) ==
  /\ i + Len(pat) - 1 <= Len(s)
  /\ \A k \in 1..Len(pat) : Lower(s[i + k - 1]) = pat[k]
\* pat matches s at position i, case kept
MatchAt(s, i, pat) ==
  /\ i + Len(pat) - 1 <= Len(s)
  /\ \A k \in 1..Len(pat) : s[i + k - 1] = pat[k]
\* pat in s.lower()
ContainsI(s, pat) == \E i \in 1..(Len(s) - Len(pat) + 1) : MatchAtI(s, i, pat)
\* pat in s
Contains(s, pat) == \E i \in 1..(Len(s) - Len(pat) + 1) : MatchAt(s, i, pat)
startswith(s, pat) == MatchAt(s, 1, pat)

\* re.sub(r"\s+", " ", s): every run of blanks becomes one space
CollapseSpaces(s) ==
  LET marked == [i \in 1..Len(s) |-> <<s[i], i > 1 /\ IsSpace(s[i - 1])>>]
      kept == SelectSeq(marked, LAMBDA p : ~(IsSpace(p[1]) /\ p[2]))
  IN [i \in 1..Len(kept) |-> IF IsSpace(kept[i][1]) THEN " " ELSE kept[i][1]]

\* re.sub(re.escape(pat), " ", s, flags=re.I) from position i on: leftmost matches,
\* not overlapping
RECURSIVE BlankFrom(_, _, _)
BlankFrom(s, i, pat) ==
  LET hits == { j \in i..Len(s) : MatchAtI(s, j, pat) } IN
  IF hits = {} THEN SubSeq(s, i, Len(s))
  ELSE LET j == CHOOSE h \in hits : \A g \in hits : h <= g IN
       SubSeq(s, i, j - 1) \o <<" ">> \o BlankFrom(s, j + Len(pat), pat)

\* re.sub(r"[^a-zA-Z0-9]", "", s)
AlnumOnly(s) == SelectSeq(s, LAMBDA c : IsUpper(c) \/ IsLower(c) \/ IsDigit(c))

(***************************************************************************)
(* Vocabularies                                                            *)
(***************************************************************************)
JUNK_PROJECT_NAMES ==
  { <<"n","e","w"," ","l","a","u","n","c","h"," ","p","r","o","j","e","c","t","s"," ","i","n"," ","b","a","n","g","a","l","o","r","e">>,
    <<"u","n","d","e","r"," ","c","o","n","s","t","r","u","c","t","i","o","n"," ","p","r","o","j","e","c","t","s"," ","i","n"," ","b","a","n","g","a","l","o","r","e">>,
    <<"r","e","a","d","y"," ","t","o"," ","m","o","v","e"," ","p","r","o","j","e","c","t","s"," ","i","n"," ","b","a","n","g","a","l","o","r","e">>,
    <<"n","e","w"," ","p","r","o","j","e","c","t","s"," ","i","n"," ","b","a","n","g","a","l","o","r","e">>,
    <<"p","r","o","j","e","c","t","s"," ","i","n"," ","b","a","n","g","a","l","o","r","e">>,
    <<"u","p","c","o","m","i","n","g"," ","p","r","o","j","e","c","t","s"," ","i","n"," ","b","a","n","g","a","l","o","r","e">>,
    <<"n","e","w"," ","p","r","o","j","e","c","t","s"," ","b","y"," ","r","e","p","u","t","e","d"," ","b","a","n","g","a","l","o","r","e"," ","b","u","i","l","d","e","r","s"," ","i","n"," ","b","a","n","g","a","l","o","r","e">>,
    <<"r","e","a","d","y"," ","t","o"," ","m","o","v","e"," ","&"," ","p","r","e"," ","l","a","u","n","c","h">>,
    <<"l","i","s","t">>,
    <<"m","a","p">>,
    <<"f","i","l","t","e","r"," ","y","o","u","r"," ","s","e","a","r","c","h">>,
    <<"r","e","s","e","t">>,
    <<"s","o","r","t"," ","b","y">>,
    <<"f","i","n","d"," ","o","t","h","e","r"," ","p","r","o","j","e","c","t","s"," ","m","a","t","c","h","i","n","g"," ","y","o","u","r"," ","s","e","a","r","c","h"," ","n","e","a","r","b","y">>,
    <<"q","u","i","c","k"," ","l","i","n","k","s">>,
    <<"b","a","n","g","a","l","o","r","e">> }

PROPERTY_JUNK_SUBSTRINGS ==
  << <<"f","i","l","t","e","r"," ","y","o","u","r"," ","s","e","a","r","c","h">>,
     <<"s","o","r","t"," ","b","y">>,
     <<"r","e","s","e","t">>,
     <<"l","i","s","t">>,
     <<"m","a","p">>,
     <<"q","u","i","c","k"," ","l","i","n","k","s">>,
     <<"f","i","n","d"," ","o","t","h","e","r"," ","p","r","o","j","e","c","t","s">>,
     <<"n","e","x","t"," ",">",">">>,
     <<"<","<"," ","p","r","e","v">>,
     <<"b","a","n","g","a","l","o","r","e",","," ","i","n","d","i","a">>,
     <<"p","r","o","p","e","r","t","y"," ","l","i","s","t">> >>

(***************************************************************************)
(* Numbers: float(s), int(s) and the ".2f" format                          *)
(***************************************************************************)
ValueError == <<"ValueError">>
DigitOf(c) == (CHOOSE i \in 1..10 : DigitChars[i] = c) - 1
RECURSIVE DigitsValue(_)
DigitsValue(s) ==
  IF s = <<>> THEN 0 ELSE DigitsValue(SubSeq(s, 1, Len(s) - 1)) * 10 + DigitOf(s[Len(s)])
RECURSIVE Digits(_)
Digits(n) ==
  IF n < 10 THEN <<DigitChars[n + 1]>> ELSE Digits(n \div 10) \o <<DigitChars[(n % 10) + 1]>>

\* a decimal numeral: digits with at most one point and at least one digit
IsNumeral(s) ==
  /\ \A i \in 1..Len(s) : IsDigit(s[i]) \/ s[i] = "."
  /\ \E i \in 1..Len(s) : IsDigit(s[i])
  /\ Cardinality({ i \in 1..Len(s) : s[i] = "." }) <= 1
\* the numeral t with its point at dot (Len(t) + 1 when it has none), in fixed point
Decimal(t, dot) ==
  PyNum(DigitsValue(SubSeq(t, 1, dot - 1)) * Scale
        + DigitsValue(Prefix(SubSeq(t, dot + 1, Len(t)) \o <<"0", "0">>, 2)))
ParseFloat(t) ==
  IF ~IsNumeral(t) THEN ValueError
  ELSE Decimal(t, IF \E i \in 1..Len(t) : t[i] = "."
                  THEN CHOOSE i \in 1..Len(t) : t[i] = "." ELSE Len(t) + 1)
\* float(s) for a str of digits and points (the numerals here carry at most two
\* decimals, which the fixed point holds exactly); anything else raises ValueError
float(s) == ParseFloat(strip(s))
\* an optional sign and digits
ParseInt(t, signed) ==
  IF (IF signed THEN Tail(t) ELSE t) = <<>> \/ \E i \in (IF signed THEN 2 ELSE 1)..Len(t) : ~IsDigit(t[i])
  THEN ValueError
  ELSE PyNum(IF signed /\ t[1] = "-" THEN 0 - DigitsValue(Tail(t))
             ELSE DigitsValue(IF signed THEN Tail(t) ELSE t))
SignedNumeral(t) == ParseInt(t, t # <<>> /\ t[1] \in {"+", "-"})
\* int(s) for a str: an optional sign and digits, blanks around them allowed
int(s) == SignedNumeral(strip(s))

\* f"{x:.2f}" of the float n / (Scale * d), n >= 0: rounded to the nearest hundredth
\* (ties to even, as the format does on an exactly represented tie)
Fixed2(n, d) ==
  LET num == n * 100
      den == Scale * d
      q == num \div den
      r == num % den
      h == IF 2 * r > den \/ (2 * r = den /\ q % 2 = 1) THEN q + 1 ELSE q
  IN Digits(h \div 100) \o <<".">> \o <<DigitChars[((h % 100) \div 10) + 1], DigitChars[(h % 10) + 1]>>

(***************************************************************************)
(* Junk filter, price display, year of possession                          *)
(***************************************************************************)
_is_junk_project_name(name) ==
  IF name = <<>> \/ Len(name) < 4 THEN TRUE
  ELSE LET key == Prefix(lower(strip(name)), 120) IN
       \/ key \in JUNK_PROJECT_NAMES
       \/ /\ \/ Contains(key, <<"p","r","o","j","e","c","t","s"," ","i","n"," ","b","a","n","g","a","l","o","r","e">>)
             \/ Contains(key, <<"p","r","o","j","e","c","t","s"," ","i","n"," ">>) /\ Contains(key, <<"b","a","n","g","a","l","o","r","e">>)
          /\ \/ startswith(key, <<"n","e","w"," ">>)
             \/ startswith(key, <<"u","n","d","e","r"," ">>)
             \/ startswith(key, <<"r","e","a","d","y"," ">>)
             \/ startswith(key, <<"u","p","c","o","m","i","n","g"," ">>)
       \/ /\ Contains(key, <<"b","y"," ","r","e","p","u","t","e","d">>)
          /\ Contains(key, <<"b","u","i","l","d","e","r","s">>)
          /\ Contains(key, <<"b","a","n","g","a","l","o","r","e">>)

\* a faulty display: the unit is taken from the minimum
_format_price_display_unit_from_min(min_p, max_p) ==
  IF IsNone(min_p) /\ IsNone(max_p) THEN <<>>
  ELSE LET lo == IF IsNone(min_p) THEN max_p[2] ELSE min_p[2]
           hi == IF IsNone(max_p) THEN lo ELSE max_p[2]
       IN IF lo >= 100 * Scale
          THEN <<Rupee, " ">> \o Fixed2(lo, 100) \o <<" ","-"," ">> \o Fixed2(hi, 100) \o <<" ","C","r">>
          ELSE <<Rupee, " ">> \o Fixed2(lo, 1) \o <<" ","-"," ">> \o Fixed2(hi, 1) \o <<" ","L">>
\* a faulty display: lakh notation up to 1000 lakh
_format_price_display_late_crore(min_p, max_p) ==
  IF IsNone(min_p) /\ IsNone(max_p) THEN <<>>
  ELSE LET lo == IF IsNone(min_p) THEN max_p[2] ELSE min_p[2]
           hi == IF IsNone(max_p) THEN lo ELSE max_p[2]
       IN IF hi >= 1000 * Scale
          THEN <<Rupee, " ">> \o Fixed2(lo, 100) \o <<" ","-"," ">> \o Fixed2(hi, 100) \o <<" ","C","r">>
          ELSE <<Rupee, " ">> \o Fixed2(lo, 1) \o <<" ","-"," ">> \o Fixed2(hi, 1) \o <<" ","L">>
_format_price_display(min_p, max_p) ==
  IF IsNone(min_p) /\ IsNone(max_p) THEN <<>>
  ELSE LET lo == IF IsNone(min_p) THEN max_p[2] ELSE min_p[2]
           hi == IF IsNone(max_p) THEN lo ELSE max_p[2]
       IN IF hi >= 100 * Scale
          THEN <<Rupee, " ">> \o Fixed2(lo, 100) \o <<" ","-"," ">> \o Fixed2(hi, 100) \o <<" ","C","r">>
          ELSE <<Rupee, " ">> \o Fixed2(lo, 1) \o <<" ","-"," ">> \o Fixed2(hi, 1) \o <<" ","L">>

(***************************************************************************)
(* Verifier/Normalizer                                                     *)
(***************************************************************************)
PRICE_MAX_LAKHS == 50000 * Scale
PRICE_MIN_LAKHS == Scale \div 10
HANDOVER_YEAR_MIN == 2020
HANDOVER_YEAR_MAX == 2040

RECURSIVE StripJunk(_, _)
StripJunk(t, k) ==
  IF k > Len(PROPERTY_JUNK_SUBSTRINGS) THEN t
  ELSE LET junk == PROPERTY_JUNK_SUBSTRINGS[k] IN
       StripJunk(IF ContainsI(t, junk) THEN strip(CollapseSpaces(BlankFrom(t, 1, junk))) ELSE t,
                 k + 1)

_normalize_str(s, max_len) ==
  IF ~IsStr(s) \/ s[2] = <<>> THEN <<>>
  ELSE LET t == CollapseSpaces(strip(s[2])) IN
       IF t = <<>> THEN <<>> ELSE Prefix(StripJunk(t, 1), max_len)

\* lines 368-371: a price that is not a number is read with float(), "" becomes None
CoercePrice(p) ==
  IF IsNone(p) \/ IsNum(p) THEN p
  ELSE IF p[2] = <<>> THEN PyNone ELSE float(p[2])
\* a faulty bound check: the floor is not applied
InPriceBoundsNoFloor(p) ==
  IF IsNone(p) \/ p[2] > PRICE_MAX_LAKHS THEN PyNone ELSE p
\* lines 374-377
InPriceBounds(p) ==
  IF IsNone(p) \/ p[2] < PRICE_MIN_LAKHS \/ p[2] > PRICE_MAX_LAKHS THEN PyNone ELSE p
\* a faulty year check: the upper end of the range is left out
CoerceYearOpenEnd(hy) ==
  IF IsNone(hy) THEN PyNone
  ELSE LET n == IF IsNum(hy) THEN hy ELSE int(hy[2]) IN
       IF n = ValueError \/ n[2] < HANDOVER_YEAR_MIN \/ n[2] >= HANDOVER_YEAR_MAX
       THEN PyNone ELSE n
\* lines 384-391
CoerceYear(hy) ==
  IF IsNone(hy) THEN PyNone
  ELSE LET n == IF IsNum(hy) THEN hy ELSE int(hy[2]) IN
       IF n = ValueError \/ n[2] < HANDOVER_YEAR_MIN \/ n[2] > HANDOVER_YEAR_MAX
       THEN PyNone ELSE n
STATUSES == { <<"n","e","w","_","l","a","u","n","c","h">>, <<"u","n","d","e","r","_","c","o","n","s","t","r","u","c","t","i","o","n">>, <<"r","e","a","d","y","_","t","o","_","m","o","v","e">> }

\* lines 378-379: an inverted pair is swapped
OrderedPrices(a, b) ==
  IF ~IsNone(a) /\ ~IsNone(b) /\ a[2] > b[2] THEN <<b, a>> ELSE <<a, b>>
\* lines 364-379: the pair (price_min_lakhs, price_max_lakhs) of the cleaned record
VerifiedPrices(record) ==
  LET c1 == CoercePrice(record.price_min_lakhs)
      c2 == CoercePrice(record.price_max_lakhs)
  IN IF c1 = ValueError \/ c2 = ValueError THEN <<PyNone, PyNone>>
     ELSE OrderedPrices(InPriceBounds(c1), InPriceBounds(c2))
\* a faulty display rule: an upstream text is kept when there is one
VerifiedDisplayTrusting(pmin, pmax, upstream) ==
  IF _normalize_str(upstream, 80) # <<>> THEN _normalize_str(upstream, 80)
  ELSE _format_price_display(pmin, pmax)
\* lines 362 and 380-381: the display is recomputed when a price is left
VerifiedDisplay(pmin, pmax, upstream) ==
  IF ~IsNone(pmin) \/ ~IsNone(pmax) THEN _format_price_display(pmin, pmax)
  ELSE _normalize_str(upstream, 80)
\* a faulty status coercion: an unknown status is kept as it came
VerifiedStatusKept(s) == lower(strip(OrEmpty(s)))

\* lines 393-395
VerifiedStatus(s) ==
  LET status == lower(strip(OrEmpty(s))) IN
  IF status \in STATUSES THEN status ELSE <<"n","e","w","_","l","a","u","n","c","h">>
\* line 397
VerifiedId(id, url) ==
  LET pid == strip(OrEmpty(id)) IN IF pid # <<>> THEN pid ELSE Suffix(AlnumOnly(url), 14)
\* line 396
VerifiedSource(s) ==
  LET source == strip(OrEmpty(s)) IN
  IF source # <<>> THEN source ELSE <<"9","9","a","c","r","e","s">>

verify_and_clean_property(record) ==
  LET url == strip(OrEmpty(record.url)) IN
  IF url = <<>> \/ ~Contains(url, <<"h","t","t","p">>) THEN PyNone
  ELSE
  LET name == _normalize_str(record.name, 200) IN
  IF name = <<>> \/ _is_junk_project_name(name) THEN PyNone
  ELSE
  LET prices == VerifiedPrices(record) IN
  <<"dict",
    [ id |-> PyStr(VerifiedId(record.id, url)),
      source |-> PyStr(VerifiedSource(record.source)),
      status |-> PyStr(VerifiedStatus(record.status)),
      name |-> PyStr(name),
      builder |-> PyStr(_normalize_str(record.builder, 100)),
      locality |-> PyStr(_normalize_str(record.locality, 150)),
      price_min_lakhs |-> prices[1],
      price_max_lakhs |-> prices[2],
      price_display |-> PyStr(VerifiedDisplay(prices[1], prices[2], record.price_display)),
      handover |-> PyStr(_normalize_str(record.handover, 50)),
      handover_year |-> CoerceYear(record.handover_year),
      bhk |-> PyStr(_normalize_str(record.bhk, 30)),
      url |-> PyStr(url) ]>>

(***************************************************************************)
(* Inputs of the verifier                                                  *)
(***************************************************************************)
\* how many pieces a generated text is put together from
MaxPieces == 3
\* how far past a field's maximum length the long texts reach
MaxOver == 2

\* all concatenations of at most k texts of P
RECURSIVE Concats(_, _)
Concats(P, k) ==
  IF k = 0 THEN { <<>> }
  ELSE LET shorter == Concats(P, k - 1) IN shorter \cup { s \o p : s \in shorter, p \in P }

Filler(n) == [i \in 1..n |-> "a"]

NamePieces == { <<"P","r","e","s","t","i","g","e">>, <<" ">>, <<"s","o","r","t">>, <<"b","y">>, <<"L","i","s","t">>, <<"P","a","r","k">> }
NameInputs ==
  Concats(NamePieces, MaxPieces)
  \cup JUNK_PROJECT_NAMES
  \cup { upper(n) : n \in JUNK_PROJECT_NAMES }
  \cup { <<"Q","u","i","c","k"," ","L","i","n","k","s">>, <<"P","r","o","j","e","c","t","s"," ","i","n"," ","B","a","n","g","a","l","o","r","e">>, <<" "," ","q","u","i","c","k"," "," "," ","l","i","n","k","s"," ">>,
         <<"U","p","c","o","m","i","n","g"," ","P","r","o","j","e","c","t","s"," ","i","n"," ","N","o","r","t","h"," ","B","a","n","g","a","l","o","r","e">>, <<"H","o","m","e","s"," ","b","y"," ","R","e","p","u","t","e","d"," ","B","u","i","l","d","e","r","s",","," ","B","a","n","g","a","l","o","r","e">>,
         <<"P","r","e","s","t","i","g","e"," ","M","a","p"," ","V","i","e","w">>, <<"a","b","c">> }
  \cup { Filler(200 - k) \o p : k \in 0..MaxOver,
                                p \in { <<>>, <<" ">>, <<" ","b">>, <<" "," ","P","a","r","k">>, <<"a">>, <<"a","a"," ","P","a","r","k">> } }
UrlInputs ==
  { <<"h","t","t","p","s",":","/","/","w","w","w",".","9","9","a","c","r","e","s",".","c","o","m","/","p","r","e","s","t","i","g","e","-","p","a","r","k","-","w","h","i","t","e","f","i","e","l","d","-","b","a","n","g","a","l","o","r","e","-","e","a","s","t","-","n","p","x","i","d","-","r","1">>,
    <<"h","t","t","p","s",":","/","/","w","w","w",".","9","9","a","c","r","e","s",".","c","o","m","/","p","r","e","s","t","i","g","e","-","p","a","r","k","-","w","h","i","t","e","f","i","e","l","d","-","b","a","n","g","a","l","o","r","e","-","e","a","s","t","-","n","p","x","i","d","-","r","1"," ">>,
    <<" ","h","t","t","p",":","/","/","n","o","b","r","o","k","e","r",".","i","n","/","p","/","x">>,
    <<"/","p","r","e","s","t","i","g","e","-","p","a","r","k","-","w","h","i","t","e","f","i","e","l","d","-","b","a","n","g","a","l","o","r","e","-","e","a","s","t","-","n","p","x","i","d","-","r","1">>,
    <<"f","t","p",":","/","/","w","w","w",".","9","9","a","c","r","e","s",".","c","o","m","/","x","-","n","p","x","i","d","-","r","1">>,
    <<"H","T","T","P","S",":","/","/","W","W","W",".","9","9","A","C","R","E","S",".","C","O","M","/","X","-","N","P","X","I","D","-","R","1">>,
    <<" "," "," ">>, <<>>,
    <<"/","r","e","d","i","r","e","c","t","/","h","t","t","p","/","p","r","e","s","t","i","g","e","-","p","a","r","k","-","n","p","x","i","d","-","r","1">>,
    <<"f","t","p",":","/","/","f","i","l","e","s",".","e","x","a","m","p","l","e",".","c","o","m","/","h","t","t","p","/","x">> }
PriceInputs ==
  { PyNone, PyNum(0), PyNum(5), PyNum(10), PyNum(4900), PyNum(7100), PyNum(9999), PyNum(10000),
    PyNum(21100), PyNum(5000000), PyNum(5000001),
    PyStr(<<>>), PyStr(<<"7","1">>), PyStr(<<"2",".","1","1">>), PyStr(<<"6","0","0","0","0">>), PyStr(<<"1",".","2",".","3">>),
    PyStr(<<"a","b","c">>) }
DisplayInputs ==
  { PyNone, PyStr(<<>>), PyStr(<<Rupee>> \o <<" ","7","1"," ","-"," ","2",".","1","1"," ","C","r">>), PyStr(<<"P","r","i","c","e"," ","o","n"," "," ","r","e","q","u","e","s","t">>),
    PyStr(<<"S","o","r","t"," ","b","y"," ","p","r","i","c","e">>) }
YearInputs ==
  { PyNone, PyNum(0), PyNum(2019), PyNum(2020), PyNum(2026), PyNum(2040), PyNum(2041),
    PyStr(<<"2","0","2","6">>), PyStr(<<" ","2","0","4","0"," ">>), PyStr(<<"2","0","4","1">>), PyStr(<<"S","e","p"," ","2","0","2","8">>), PyStr(<<>>),
    PyStr(<<"-","2","0","2","6">>) }
HandoverInputs ==
  { PyNone, PyStr(<<"S","e","p"," ","2","0","2","8">>), PyStr(<<"R","e","a","d","y"," ","t","o"," ","m","o","v","e">>), PyStr(<<"D","e","c"," "," ","2","0","2","6"," ">>) }
TextInputs ==
  { PyNone, PyStr(<<>>), PyStr(<<"E","l","e","c","t","r","o","n","i","c"," ","C","i","t","y",","," ","B","a","n","g","a","l","o","r","e",","," ","I","n","d","i","a">>), PyStr(<<"1",","," ","2",","," ","3">>),
    PyStr(<<" ","W","h","i","t","e","f","i","e","l","d"," "," ","M","a","p"," ">>) }
    \cup { PyStr(Filler(n) \o <<" ","b">>) : n \in {29, 49, 99, 149} }
StatusInputs ==
  { PyNone, PyStr(<<"n","e","w","_","l","a","u","n","c","h">>), PyStr(<<" ","R","e","a","d","y","_","T","o","_","M","o","v","e"," ">>), PyStr(<<"u","n","d","e","r","_","c","o","n","s","t","r","u","c","t","i","o","n">>),
    PyStr(<<"s","o","l","d"," ","o","u","t">>) }
IdInputs == { PyNone, PyStr(<<>>), PyStr(<<"s","a","m","p","l","e","2">>), PyStr(<<" ","r","4","3","9","8","9","5"," ">>) }
SourceInputs == { PyNone, PyStr(<<"9","9","a","c","r","e","s">>), PyStr(<<" ","n","o","b","r","o","k","e","r">>), PyStr(<<" ">>) }

BaseRecord ==
  [ id |-> PyStr(<<"s","a","m","p","l","e","2">>),
    source |-> PyStr(<<"9","9","a","c","r","e","s">>),
    status |-> PyStr(<<"u","n","d","e","r","_","c","o","n","s","t","r","u","c","t","i","o","n">>),
    name |-> PyStr(<<"P","r","e","s","t","i","g","e"," ","S","u","n","c","r","e","s","t">>),
    builder |-> PyStr(<<"P","r","e","s","t","i","g","e">>),
    locality |-> PyStr(<<"E","l","e","c","t","r","o","n","i","c"," ","C","i","t","y",","," ","B","a","n","g","a","l","o","r","e"," ","S","o","u","t","h">>),
    price_min_lakhs |-> PyNum(7100),
    price_max_lakhs |-> PyNum(21100),
    price_display |-> PyStr(<<Rupee>> \o <<" ","7","1"," ","-"," ","2",".","1","1"," ","C","r">>),
    handover |-> PyStr(<<"S","e","p"," ","2","0","2","8">>),
    handover_year |-> PyNum(2028),
    bhk |-> PyStr(<<"1",","," ","2",","," ","3">>),
    url |-> PyStr(<<"h","t","t","p","s",":","/","/","w","w","w",".","9","9","a","c","r","e","s",".","c","o","m","/","p","r","e","s","t","i","g","e","-","s","u","n","c","r","e","s","t","-","e","l","e","c","t","r","o","n","i","c","-","c","i","t","y","-","b","a","n","g","a","l","o","r","e","-","s","o","u","t","h","-","n","p","x","i","d","-","r","4","3","9","8","9","5">>) ]

VerifyInputs ==
  { [BaseRecord EXCEPT !.name = PyStr(n)] : n \in NameInputs }
  \cup { [BaseRecord EXCEPT !.name = n, !.url = u] :
           n \in { PyNone, PyStr(<<"Q","u","i","c","k"," ","L","i","n","k","s">>), PyStr(<<"P","r","e","s","t","i","g","e"," ","P","a","r","k">>) },
           u \in { PyNone } \cup { PyStr(x) : x \in UrlInputs } }
  \cup { [BaseRecord EXCEPT !.price_min_lakhs = a, !.price_max_lakhs = b, !.price_display = d] :
           a \in PriceInputs, b \in PriceInputs, d \in DisplayInputs }
  \cup { [BaseRecord EXCEPT !.handover_year = y, !.handover = h] :
           y \in YearInputs, h \in HandoverInputs }
  \cup { [BaseRecord EXCEPT !.builder = t, !.locality = t, !.bhk = t, !.handover = t] :
           t \in TextInputs }
  \cup { [BaseRecord EXCEPT !.status = s, !.id = i, !.source = o] :
           s \in StatusInputs, i \in IdInputs, o \in SourceInputs }

(***************************************************************************)
(* The verifier applied to a record, and applied again to its own result   *)
(* (run_scraper verifies every record, main verifies run_scraper's list    *)
(* once more before writing it)                                            *)
(***************************************************************************)
VerifyInit ==
  /\ vin \in VerifyInputs
  /\ vout = PyNone
  /\ vout2 = PyNone
  /\ vpc = "in"

Verify ==
  /\ vpc = "in"
  /\ vout' = verify_and_clean_property(vin)
  /\ vpc' = "once"
  /\ UNCHANGED <<vin, vout2>>

VerifyAgain ==
  /\ vpc = "once"
  /\ ~IsNone(vout)
  /\ vout2' = verify_and_clean_property(vout[2])
  /\ vpc' = "twice"
  /\ UNCHANGED <<vin, vout>>

VerifyIdle == vin = BaseRecord /\ vout = PyNone /\ vout2 = PyNone /\ vpc = "idle"

(***************************************************************************)
(* Properties of the verifier (SpecVerify)                                 *)
(***************************************************************************)
Verified == vpc \in {"once", "twice"} /\ ~IsNone(vout)
\* the record handed in carries the url and name of BaseRecord, which pass the gate
BaseIdentity == vin.url = BaseRecord.url /\ vin.name = BaseRecord.name
\* a price within [0.1, 50000] lakh
SanePrice(p) == IsNum(p) /\ p[2] * 10 >= Scale /\ p[2] <= 50000 * Scale

C3_Idempotent == vpc = "twice" => vout2 = vout

\* C4 as stated: in every record the verifier returns, price_display equals
\* _format_price_display(price_min_lakhs, price_max_lakhs), the pair (null, null) included.
C4_DisplayFromPairAlways ==
  Verified =>
    vout[2].price_display
      = PyStr(_format_price_display(vout[2].price_min_lakhs, vout[2].price_max_lakhs))
\* C4 amended: when a price is left, price_display is the display recomputed from the pair
\* and nothing of the upstream text survives; when both prices are null it is the
\* normalized upstream display text.
C4_DisplayFromPairWhenPriced ==
  Verified =>
    LET lo == vout[2].price_min_lakhs
        hi == vout[2].price_max_lakhs
    IN IF IsNone(lo) /\ IsNone(hi)
       THEN vout[2].price_display = PyStr(_normalize_str(vin.price_display, 80))
       ELSE vout[2].price_display = PyStr(_format_price_display(lo, hi))
\* an upstream display text has been replaced by the one recomputed from (71, 211)
C4_Witness ==
  /\ Verified
  /\ vin.price_display = PyStr(<<"P","r","i","c","e"," ","o","n"," "," ","r","e","q","u","e","s","t">>)
  /\ vout[2].price_min_lakhs = PyNum(7100) /\ vout[2].price_max_lakhs = PyNum(21100)
  /\ vout[2].price_display = PyStr(<<Rupee>> \o <<" ","0",".","7","1"," ","-"," ","2",".","1","1"," ","C","r">>)

\* C5: a record whose name is, ignoring case, one of the known navigation or page-title
\* strings is dropped by the verifier, whatever else it carries.
C5_JunkNameDropped ==
  vpc \in {"once", "twice"} /\ IsStr(vin.name) /\ lower(vin.name[2]) \in JUNK_PROJECT_NAMES
    => IsNone(vout)

C10_LakhNotationFor71And211 ==
  Verified /\ vout[2].price_min_lakhs = PyNum(7100) /\ vout[2].price_max_lakhs = PyNum(21100)
    => LET d == vout[2].price_display[2] IN
       /\ Suffix(d, 2) = <<" ","L">>
       /\ Contains(d, <<"7","1">>) /\ Contains(d, <<"2","1","1">>)
\* C10 amended: for the pair (71, 211) the maximum is not below 100, so the display is in
\* crore notation: "Rs 0.71 - 2.11 Cr".
C10_CroreNotationFor71And211 ==
  Verified /\ vout[2].price_min_lakhs = PyNum(7100) /\ vout[2].price_max_lakhs = PyNum(21100)
    => vout[2].price_display = PyStr(<<Rupee>> \o <<" ","0",".","7","1"," ","-"," ","2",".","1","1"," ","C","r">>)
\* the sample record (71, 211), display "Rs 71 - 2.11 Cr" upstream, has been verified
C10_Witness ==
  /\ Verified
  /\ vin = BaseRecord
  /\ vout[2].price_min_lakhs = PyNum(7100) /\ vout[2].price_max_lakhs = PyNum(21100)

\* the url, trimmed, begins with http:// or https://
HasNetworkScheme(u) ==
  IsStr(u) /\ (startswith(strip(u[2]), <<"h","t","t","p",":","/","/">>) \/ startswith(strip(u[2]), <<"h","t","t","p","s",":","/","/">>))

\* C13: the verifier returns None for every record whose url is empty after trimming or
\* does not begin with http:// or https://, whatever the other fields hold; so every
\* record it returns has a url with such a scheme.
C13_UrlWithoutSchemeRejected ==
  vpc \in {"once", "twice"} =>
    /\ ~HasNetworkScheme(vin.url) => IsNone(vout)
    /\ ~IsNone(vout) => HasNetworkScheme(vout[2].url)

FormatInputs ==
  { PyNone } \cup { PyNum(n) : n \in { 0, 10, 4900, 7100, 9900, 9999, 10000, 17700, 21100,
                                       23000, 37200, 123449, 5000000 } }
FormatInit == fin \in FormatInputs \X FormatInputs /\ fout = <<>> /\ fpc = "in"
FormatIdle == fin = <<PyNone, PyNone>> /\ fout = <<>> /\ fpc = "idle"
Format ==
  /\ fpc = "in"
  /\ fout' = _format_price_display(fin[1], fin[2])
  /\ fpc' = "done"
  /\ UNCHANGED fin

(***************************************************************************)
(* Price-range parser                                                      *)
(***************************************************************************)
IsNumChar(c) == IsDigit(c) \/ c = "."
\* the end of the longest run of [\d.] that starts at i
NumEnd(s, i) ==
  LET stops == { j \in i..Len(s) : ~IsNumChar(s[j]) } IN
  IF stops = {} THEN Len(s) ELSE (CHOOSE j \in stops : \A k \in stops : j <= k) - 1
\* the first position from i on that holds no blank (Len(s) + 1 when there is none)
SkipSpaces(s, i) ==
  LET ink == { j \in i..Len(s) : ~IsSpace(s[j]) } IN
  IF ink = {} THEN Len(s) + 1 ELSE CHOOSE j \in ink : \A k \in ink : j <= k
CharAt(s, i) == IF i >= 1 /\ i <= Len(s) THEN s[i] ELSE ""
Least(S) == CHOOSE i \in S : \A j \in S : i <= j

\* no match: a match has at least one group
NoMatch == <<>>
CR == { <<"c","r">> }
LAKH == { <<"l">>, <<"l","a","k","h">>, <<"l","a","c">> }
NOUNIT == { <<>> }
LACS == { <<"l","a","c">>, <<"l","a","c","s">>, <<"l","a","k","h">>, <<"l","a","k","h","s">> }

\* the one match in a set of attempts, NoMatch when no attempt matched
TheMatch(attempts) ==
  IF attempts \subseteq { NoMatch } THEN NoMatch ELSE CHOOSE m \in attempts : m # NoMatch
\* re.search: the match at the leftmost position of at, a sequence of attempts by position
Leftmost(at) ==
  IF \A i \in DOMAIN at : at[i] = NoMatch THEN NoMatch
  ELSE at[Least({ i \in DOMAIN at : at[i] # NoMatch })]

\* -\s*([\d.]+)\s*U2 with the dash at d and the numeral at k: group 2
DashNumeralUnit(s, d, k, U2) ==
  IF /\ CharAt(s, d) = "-"
     /\ IsNumChar(CharAt(s, k))
     /\ \E u2 \in U2 : MatchAtI(s, SkipSpaces(s, NumEnd(s, k) + 1), u2)
  THEN <<SubSeq(s, k, NumEnd(s, k))>> ELSE NoMatch
\* \s*-\s*([\d.]+)\s*U2 at e
RangeTail(s, e, U2) == DashNumeralUnit(s, SkipSpaces(s, e), SkipSpaces(s, SkipSpaces(s, e) + 1), U2)
\* U1\s*-\s*([\d.]+)\s*U2 at a, U1 and U2 sets of alternatives: group 2.  A dash follows
\* the alternative of U1 that matches, so no two of them lead to a match.
UnitRangeTail(s, a, U1, U2) ==
  TheMatch({ IF MatchAtI(s, a, u) THEN RangeTail(s, a + Len(u), U2) ELSE NoMatch : u \in U1 })
\* group 1 put before the groups of the rest of the match
Groups(g1, rest) == IF rest = NoMatch THEN NoMatch ELSE <<g1>> \o rest
\* ([\d.]+)\s*U1\s*-\s*([\d.]+)\s*U2 matched at i, ignoring case.  The groups are runs
\* of [\d.] taken whole: what follows a run is never a digit or a point.
RangeAt(s, i, U1, U2) ==
  IF ~IsNumChar(CharAt(s, i)) THEN NoMatch
  ELSE Groups(SubSeq(s, i, NumEnd(s, i)), UnitRangeTail(s, SkipSpaces(s, NumEnd(s, i) + 1), U1, U2))
RangeSearch(s, U1, U2) == Leftmost([i \in 1..Len(s) |-> RangeAt(s, i, U1, U2)])

\* ([\d.]+)\s*U matched at i
SingleAt(s, i, U) ==
  IF /\ IsNumChar(CharAt(s, i))
     /\ \E u \in U : MatchAtI(s, SkipSpaces(s, NumEnd(s, i) + 1), u)
  THEN <<SubSeq(s, i, NumEnd(s, i))>> ELSE NoMatch
SingleSearch(s, U) == Leftmost([i \in 1..Len(s) |-> SingleAt(s, i, U)])

\* \s+onwards? at b
OnwardsAt(s, b) == IsSpace(CharAt(s, b)) /\ MatchAtI(s, SkipSpaces(s, b), <<"o","n","w","a","r","d">>)
\* (?:lacs?|lakhs?|lac)\s+onwards? at a
LacsOnwardsAt(s, a) == \E u \in LACS : MatchAtI(s, a, u) /\ OnwardsAt(s, a + Len(u))
\* ([\d.]+)\s*(?:lacs?|lakhs?|lac)\s+onwards? matched at i
OnwardsMatchAt(s, i) ==
  IF IsNumChar(CharAt(s, i)) /\ LacsOnwardsAt(s, SkipSpaces(s, NumEnd(s, i) + 1))
  THEN <<SubSeq(s, i, NumEnd(s, i))>> ELSE NoMatch
OnwardsSearch(s) == Leftmost([i \in 1..Len(s) |-> OnwardsMatchAt(s, i)])

\* text.replace(",", "").replace(rupee sign, "").strip()
RawPriceText(text) == strip(SelectSeq(text, LAMBDA c : c # "," /\ c # Rupee))

\* float() of every group of a match m; a ValueError leaves the try block, as no match does
AllFloats(fs) == IF \E k \in DOMAIN fs : fs[k] = ValueError THEN NoMatch ELSE fs
Floats(m) == IF m = NoMatch THEN NoMatch ELSE AllFloats([k \in DOMAIN m |-> float(m[k])])

\* a faulty branch 1: the crore values are returned as they are
CroreBoundsInCrore(f) ==
  IF f = NoMatch THEN NoMatch
  ELSE LET low == f[1][2]
           high == f[2][2]
       IN IF low <= high /\ high < 1000 * Scale
          THEN <<PyNum(low), PyNum(high)>> ELSE NoMatch
\* branch 1, lines 202-210: "X - Y Cr"
CroreBounds(f) ==
  IF f = NoMatch THEN NoMatch
  ELSE LET low == f[1][2]
           high == f[2][2]
       IN IF low <= high /\ high < 1000 * Scale
          THEN <<PyNum(low * 100), PyNum(high * 100)>> ELSE NoMatch
CroreRange(raw) == CroreBounds(Floats(RangeSearch(raw, NOUNIT, CR)))
\* a faulty branch 2: the order of the two values is not checked
LakhBoundsUnordered(f) ==
  IF f = NoMatch THEN NoMatch
  ELSE LET low == f[1][2]
           high == f[2][2]
       IN IF high < 10000 * Scale
          THEN <<PyNum(low), PyNum(high)>> ELSE NoMatch

\* branch 2, lines 212-220: "X L - Y L"
LakhBounds(f) ==
  IF f = NoMatch THEN NoMatch
  ELSE LET low == f[1][2]
           high == f[2][2]
       IN IF low <= high /\ high < 10000 * Scale
          THEN <<PyNum(low), PyNum(high)>> ELSE NoMatch
LakhRange(raw) == LakhBounds(Floats(RangeSearch(raw, LAKH, LAKH)))
\* a faulty branch 3: the lakh minimum is compared with the crore maximum unconverted
MixedBoundsUnconverted(f) ==
  IF f = NoMatch THEN NoMatch
  ELSE LET low == f[1][2]
           high == f[2][2]
       IN IF low <= high THEN <<PyNum(low), PyNum(high * 100)>> ELSE NoMatch
\* branch 3, lines 222-230: "X L - Y Cr"
MixedBounds(f) ==
  IF f = NoMatch THEN NoMatch
  ELSE LET low == f[1][2]
           high == f[2][2] * 100
       IN IF low <= high THEN <<PyNum(low), PyNum(high)>> ELSE NoMatch
MixedRange(raw) == MixedBounds(Floats(RangeSearch(raw, LAKH, CR)))
\* branch 4, lines 232-240: "X lacs onwards", the minimum only
OnwardsBounds(f) ==
  IF f = NoMatch THEN NoMatch
  ELSE LET n == f[1][2] IN
       IF n < 10000 * Scale THEN <<PyNum(n), PyNone>> ELSE NoMatch
LakhOnwards(raw) == OnwardsBounds(Floats(OnwardsSearch(raw)))
\* branch 5, lines 241-249: (?:Starting\s+)?(?:rupee\s*)?([\d.]+)\s*Cr\s*(?:onwards)?
\* The rupee sign has left raw, and "Starting" and blanks hold no digit, so group 1 is
\* the leftmost numeral that "Cr" follows.
StartingBounds(f) ==
  IF f = NoMatch THEN NoMatch
  ELSE LET n == f[1][2] * 100 IN
       IF n < 10000 * Scale THEN <<PyNum(n), PyNone>> ELSE NoMatch
CroreStarting(raw) == StartingBounds(Floats(SingleSearch(raw, CR)))
\* branch 6, lines 250-263: one "X Cr", else one "X L"; a ValueError ends the function
SingleBounds(single_cr, single_l) ==
  IF single_cr # NoMatch
  THEN LET n == float(single_cr[1]) IN
       IF n = ValueError THEN NoMatch ELSE <<PyNum(n[2] * 100), PyNum(n[2] * 100)>>
  ELSE IF single_l # NoMatch
  THEN LET n == float(single_l[1]) IN
       IF n = ValueError THEN NoMatch
       ELSE IF n[2] < 10000 * Scale THEN <<n, n>> ELSE NoMatch
  ELSE NoMatch
SingleValue(raw) == SingleBounds(SingleSearch(raw, CR), SingleSearch(raw, LAKH))

\* the branches in the order the function tries them; the result is <<k, min, max>> with
\* k the branch that returned (0: none did, the result is (None, None))
FirstBranch(branches) ==
  LET hits == { k \in 1..Len(branches) : branches[k] # NoMatch } IN
  IF hits = {} THEN <<0, PyNone, PyNone>>
  ELSE <<Least(hits), branches[Least(hits)][1], branches[Least(hits)][2]>>

Branches(raw) ==
  <<CroreRange(raw), LakhRange(raw), MixedRange(raw), LakhOnwards(raw), CroreStarting(raw),
    SingleValue(raw)>>
parse_price_range(text) ==
  IF text = <<>> THEN <<0, PyNone, PyNone>> ELSE FirstBranch(Branches(RawPriceText(text)))

\* src/scraper.py: the same three range branches, then the single value (its branch 4)
LegacyBranches(raw) == <<CroreRange(raw), LakhRange(raw), MixedRange(raw), SingleValue(raw)>>
legacy_parse_price_range(text) ==
  IF text = <<>> THEN <<0, PyNone, PyNone>> ELSE FirstBranch(LegacyBranches(RawPriceText(text)))

(***************************************************************************)
(* Inputs of the price-range parser: pre a ua dash b ub post, with a and b *)
(* numerals (val: the number in fixed point, -1 when float() rejects it)   *)
(***************************************************************************)
Numeral(t, v) == [txt |-> t, val |-> v]
NoNumeral == Numeral(<<>>, 0 - 1)
Numerals ==
  { Numeral(<<"7","1">>, 7100), Numeral(<<"2",".","1","1">>, 211), Numeral(<<"0",".","7","1">>, 71),
    Numeral(<<"9","9","9",".","9","9">>, 99999), Numeral(<<"1","0","0","0">>, 100000), Numeral(<<"1",",","2","0","0">>, 120000),
    Numeral(<<"1","2","0","0","0">>, 1200000), Numeral(<<"1",".","2",".","3">>, 0 - 1) }
PriceTexts ==
  [ pre : { <<>> },
    a : Numerals,
    ua : { <<>>, <<" ","L">>, <<" ","l","a","c">>, <<" ","C","r">> },
    dash : { <<" ","-"," ">>, <<"-">> },
    b : Numerals,
    ub : { <<" ","C","r">>, <<"c","r">>, <<" ","L">>, <<" ","L","a","c","s">>, <<>> },
    post : { <<>> } ]
  \cup
  [ pre : { <<Rupee, " ">>, <<"S","t","a","r","t","i","n","g"," ">> },
    a : { n \in Numerals : n.val \in { 7100, 211, 100000 } },
    ua : { <<>>, <<" ","L">> },
    dash : { <<" ","-"," ">> },
    b : { n \in Numerals : n.val \in { 7100, 211, 100000 } },
    ub : { <<" ","C","r">>, <<" ","L">> },
    post : { <<>>, <<" ","o","n","w","a","r","d","s">> } ]
  \cup
  [ pre : { <<>>, <<Rupee, " ">>, <<"S","t","a","r","t","i","n","g"," ">>, <<"3"," ","B","H","K"," ">> },
    a : Numerals \cup { NoNumeral },
    ua : { <<>>, <<" ","L">>, <<" ","L","a","k","h">>, <<" ","l","a","c","s">>, <<" ","C","r">>, <<"C","r">> },
    dash : { <<>> },
    b : { NoNumeral },
    ub : { <<>> },
    post : { <<>>, <<" ","o","n","w","a","r","d","s">>, <<" ","o","n","w","a","r","d",","," ","P","o","s","s","e","s","s","i","o","n",":"," ","S","e","p"," ","2","0","2","8">> } ]
PriceText(p) == p.pre \o p.a.txt \o p.ua \o p.dash \o p.b.txt \o p.ub \o p.post

PriceInit == pin \in PriceTexts /\ pout = <<0, PyNone, PyNone>> /\ ppc = "in"
PriceIdle ==
  /\ pin = [pre |-> <<>>, a |-> NoNumeral, ua |-> <<>>, dash |-> <<>>, b |-> NoNumeral,
            ub |-> <<>>, post |-> <<>>]
  /\ pout = <<0, PyNone, PyNone>>
  /\ ppc = "idle"
\* src/scraper/scraper.py
Parse ==
  /\ ppc = "in"
  /\ pout' = parse_price_range(PriceText(pin))
  /\ ppc' = "new"
  /\ UNCHANGED pin
\* src/scraper.py
ParseLegacy ==
  /\ ppc = "in"
  /\ pout' = legacy_parse_price_range(PriceText(pin))
  /\ ppc' = "legacy"
  /\ UNCHANGED pin

(***************************************************************************)
(* Properties of the price-range parser (SpecPrice)                        *)
(***************************************************************************)
Parsed == ppc \in {"new", "legacy"}
\* the text handed in is a range: two numerals float() accepts, a dash between them
IsRangeText == pin.dash # <<>> /\ pin.a.val >= 0 /\ pin.b.val >= 0
CroreUnits == { <<" ","C","r">>, <<"c","r">> }
LakhUnits == { <<" ","L">>, <<" ","l","a","c">> }

\* C7: for a text "A - B Cr" with A <= B < 1000, parse_price_range of either file returns
\* (100 * A, 100 * B).
C7_CroreRangeInLakh ==
  Parsed /\ IsRangeText /\ pin.ua = <<>> /\ pin.ub \in CroreUnits
         /\ pin.a.val <= pin.b.val /\ pin.b.val < 1000 * Scale
    => pout[2] = PyNum(100 * pin.a.val) /\ pout[3] = PyNum(100 * pin.b.val)
\* "0.71 - 2.11 Cr" has been parsed to (71, 211) lakh
C7_Witness ==
  /\ ppc = "new"
  /\ PriceText(pin) = <<"0",".","7","1"," ","-"," ","2",".","1","1"," ","C","r">>
  /\ pout = <<1, PyNum(7100), PyNum(21100)>>

\* C8: for a text "X L - Y Cr" with X <= 100 * Y, parse_price_range of either file
\* returns (X, 100 * Y), and it is the mixed branch, the third, that returns: neither the
\* crore-range branch nor the lakh-range branch takes the text first.
C8_MixedRange ==
  Parsed /\ IsRangeText /\ pin.ua \in LakhUnits /\ pin.ub \in CroreUnits
         /\ pin.a.val <= 100 * pin.b.val
    => pout = <<3, PyNum(pin.a.val), PyNum(100 * pin.b.val)>>
\* "71 L - 2.11 Cr" has been parsed by the legacy file to (71, 211) lakh
C8_Witness ==
  /\ ppc = "legacy"
  /\ PriceText(pin) = <<"7","1"," ","L"," ","-"," ","2",".","1","1"," ","C","r">>
  /\ pout = <<3, PyNum(7100), PyNum(21100)>>

\* the text handed in is one bare value "X Cr" or "X L": a numeral float() accepts and a
\* unit, at most the rupee sign before it, no second numeral and nothing behind
IsBareValue ==
  /\ pin.dash = <<>> /\ pin.b = NoNumeral /\ pin.ub = <<>> /\ pin.post = <<>>
  /\ pin.pre \in { <<>>, <<Rupee, " ">> }
  /\ pin.a.val >= 0
\* its value in lakh
BareValue ==
  IF lower(strip(pin.ua)) \in CR THEN 100 * pin.a.val ELSE pin.a.val

\* C19: for a text that is one bare "X Cr" or "X L", parse_price_range of
\* src/scraper/scraper.py returns the value in lakh as both min and max.
C19_BareValueBothEnds ==
  ppc = "new" /\ IsBareValue /\ pin.ua # <<>>
    => pout[2] = PyNum(BareValue) /\ pout[3] = PyNum(BareValue)

\* the largest sanity ceiling of the function, 1000 crore, in lakh
CroreCeiling == 1000 * 100 * Scale
\* C20: parse_price_range of src/scraper/scraper.py never returns a value at or above the
\* sanity ceiling of its unit (1000 crore, the larger of the two ceilings, bounds every
\* value), and never a minimum above the maximum: a branch with such values is skipped.
C20_WithinCeilings ==
  ppc = "new" =>
    /\ IsNum(pout[2]) => pout[2][2] < CroreCeiling
    /\ IsNum(pout[3]) => pout[3][2] < CroreCeiling
    /\ IsNum(pout[2]) /\ IsNum(pout[3]) => pout[2][2] <= pout[3][2]

\* the text is a range "X .. - Y .." whose first number is the larger one
IsInvertedRange ==
  pin.dash # <<>> /\ pin.a.val >= 0 /\ pin.b.val >= 0 /\ pin.a.val > pin.b.val
\* C29: for every text parse_price_range of src/scraper/scraper.py returns a pair of one
\* of three shapes: (None, None); (m, None) with m >= 0; (m, M) with 0 <= m <= M. It never
\* returns a minimum of None with a maximum, and never a minimum above the maximum.
C29_ThreeShapes ==
  ppc = "new" =>
    \/ pout[2] = PyNone /\ pout[3] = PyNone
    \/ IsNum(pout[2]) /\ pout[2][2] >= 0 /\ pout[3] = PyNone
    \/ IsNum(pout[2]) /\ IsNum(pout[3]) /\ 0 <= pout[2][2] /\ pout[2][2] <= pout[3][2]
\* a lakh range whose first number is the larger one: branch 2 skipped it and a later
\* branch returned a pair
C29_Witness ==
  /\ ppc = "new" /\ IsInvertedRange
  /\ lower(strip(pin.ua)) \in LAKH /\ lower(strip(pin.ub)) \in LAKH
  /\ pout[1] > 2 /\ IsNum(pout[2])
\* the three shapes are returned
C29_Probe_None == ppc = "new" /\ pout[1] = 0 /\ pin.a # NoNumeral
C29_Probe_MinOnly == ppc = "new" /\ IsNum(pout[2]) /\ pout[3] = PyNone /\ IsInvertedRange
C29_Probe_Both == ppc = "new" /\ IsNum(pout[2]) /\ IsNum(pout[3]) /\ pout[2][2] < pout[3][2]

(***************************************************************************)
(* Properties of the price display (SpecFormat)                            *)
(***************************************************************************)
\* the two numbers a display shows before its unit, read back with float()
Shown(d, unit) ==
  LET body == SubSeq(d, 3, Len(d) - Len(unit))
      dash == CHOOSE i \in 1..Len(body) : MatchAt(body, i, <<" ","-"," ">>)
  IN <<float(SubSeq(body, 1, dash - 1)), float(SubSeq(body, dash + 3, Len(body)))>>
\* x shown in units of d lakh, to the nearest hundredth
ShownAs(n, x, d) ==
  /\ n # ValueError
  /\ 2 * (n[2] * d - x) <= d
  /\ 2 * (x - n[2] * d) <= d

\* C9: _format_price_display takes the unit from the maximum alone: with max >= 100 both
\* values are shown divided by 100 and followed by "Cr", with max < 100 both are shown in
\* lakh and followed by "L"; when one of the two is null the other stands at both ends, and
\* when both are null the display is the empty string.
C9_UnitFromMaxAlone ==
  fpc = "done" =>
    IF IsNone(fin[1]) /\ IsNone(fin[2]) THEN fout = <<>>
    ELSE LET lo == IF IsNone(fin[1]) THEN fin[2][2] ELSE fin[1][2]
             hi == IF IsNone(fin[2]) THEN fin[1][2] ELSE fin[2][2]
             unit == IF hi >= 100 * Scale THEN <<" ","C","r">> ELSE <<" ","L">>
             d == IF hi >= 100 * Scale THEN 100 ELSE 1
         IN /\ Prefix(fout, 2) = <<Rupee, " ">>
            /\ Suffix(fout, Len(unit)) = unit
            /\ \E i \in 1..Len(fout) : MatchAt(fout, i, <<" ","-"," ">>)
            /\ ShownAs(Shown(fout, unit)[1], lo, d)
            /\ ShownAs(Shown(fout, unit)[2], hi, d)
\* (230, 372) has been rendered in crore notation
C9_Witness ==
  /\ fpc = "done"
  /\ fin = <<PyNum(23000), PyNum(37200)>>
  /\ fout = <<Rupee>> \o <<" ","2",".","3","0"," ","-"," ","3",".","7","2"," ","C","r">>

(***************************************************************************)
(* 99acres listing pages: what the scraper reads from one anchor           *)
(***************************************************************************)
\* s.split(c)[0]
BeforeFirst(s, c) ==
  IF \E i \in 1..Len(s) : s[i] = c
  THEN SubSeq(s, 1, Least({ i \in 1..Len(s) : s[i] = c }) - 1) ELSE s
Greatest(S) == CHOOSE i \in S : \A j \in S : j <= i
\* s.split(c)[-1]
AfterLast(s, c) ==
  IF \E i \in 1..Len(s) : s[i] = c
  THEN SubSeq(s, Greatest({ i \in 1..Len(s) : s[i] = c }) + 1, Len(s)) ELSE s
\* s.rstrip(chars)
rstrip_chars(s, chars) ==
  IF \A i \in 1..Len(s) : s[i] \in chars THEN <<>>
  ELSE SubSeq(s, 1, Greatest({ i \in 1..Len(s) : s[i] \notin chars }))
\* s.replace("-", " ")
Undashed(s) == [i \in 1..Len(s) |-> IF s[i] = "-" THEN " " ELSE s[i]]
IsCased(c) == IsUpper(c) \/ IsLower(c)
\* s.title(): a letter after a letter is lowered, any other letter is raised
title(s) == [i \in 1..Len(s) |-> IF i > 1 /\ IsCased(s[i - 1]) THEN Lower(s[i]) ELSE Upper(s[i])]
\* s.endswith(pat), ignoring case (pat in lower case)
EndsWithI(s, pat) == Len(s) >= Len(pat) /\ MatchAtI(s, Len(s) - Len(pat) + 1, pat)
\* re.sub(r"-npxid.*", "", s, flags=re.I)
BeforeNpxid(s) ==
  IF ContainsI(s, <<"-","n","p","x","i","d">>)
  THEN SubSeq(s, 1, Least({ i \in 1..Len(s) : MatchAtI(s, i, <<"-","n","p","x","i","d">>) }) - 1) ELSE s
\* re.sub(r"-npxid.*", "", s): the case is kept
BeforeNpxidCased(s) ==
  IF Contains(s, <<"-","n","p","x","i","d">>)
  THEN SubSeq(s, 1, Least({ i \in 1..Len(s) : MatchAt(s, i, <<"-","n","p","x","i","d">>) }) - 1) ELSE s

\* scheme://host of an absolute url
Origin(url) ==
  LET host == Least({ i \in 1..Len(url) : MatchAt(url, i, <<":","/","/">>) }) + 3 IN
  IF \E i \in host..Len(url) : url[i] = "/"
  THEN SubSeq(url, 1, Least({ i \in host..Len(url) : url[i] = "/" }) - 1) ELSE url
\* href opens with a scheme: letters, then "://"
HasScheme(href) ==
  \E i \in 2..Len(href) : MatchAt(href, i, <<":","/","/">>) /\ \A k \in 1..(i - 1) : IsCased(href[k])
\* urljoin(base, href) for an absolute href, a path from the root, or a path beside the
\* base page
urljoin(base, href) ==
  IF HasScheme(href) THEN href
  ELSE IF startswith(href, <<"/">>) THEN Origin(base) \o href
  ELSE SubSeq(base, 1, Greatest({ i \in 1..Len(base) : base[i] = "/" })) \o href

ZONES == { <<"n","o","r","t","h">>, <<"s","o","u","t","h">>, <<"e","a","s","t">>, <<"w","e","s","t">> }
TWO_WORD_LOCALITIES ==
  { <<"s","a","r","j","a","p","u","r","-","r","o","a","d">>, <<"h","e","n","n","u","r","-","r","o","a","d">>, <<"e","l","e","c","t","r","o","n","i","c","-","c","i","t","y">>, <<"k","a","n","a","k","a","p","u","r","a","-","r","o","a","d">>,
    <<"b","a","n","n","e","r","g","h","a","t","t","a","-","r","o","a","d">>, <<"b","e","g","u","r","-","r","o","a","d">>, <<"h","o","s","u","r","-","r","o","a","d">>, <<"m","y","s","o","r","e","-","r","o","a","d">>, <<"d","e","v","a","n","a","h","a","l","l","i">>,
    <<"m","a","r","a","t","h","a","h","a","l","l","i">>, <<"w","h","i","t","e","f","i","e","l","d">>, <<"b","a","g","a","l","u","r">>, <<"y","e","l","a","h","a","n","k","a">>, <<"v","a","r","t","h","u","r">>, <<"p","a","n","a","t","h","u","r">>,
    <<"n","a","l","l","u","r","h","a","l","l","i">>, <<"k","o","g","i","l","u">>, <<"n","e","l","a","m","a","n","g","a","l","a">>, <<"k","e","n","g","e","r","i">>, <<"u","t","t","a","r","a","h","a","l","l","i">>,
    <<"r","a","j","a","r","a","j","e","s","h","w","a","r","i","-","n","a","g","a","r">>, <<"h","o","s","a","-","r","o","a","d">>, <<"h","e","b","b","a","l">>, <<"t","h","a","n","i","s","a","n","d","r","a">>, <<"k","r","-","p","u","r","a","m">>,
    <<"m","a","l","l","e","s","h","w","a","r","a","m">>, <<"h","o","r","a","m","a","v","u">>, <<"g","u","n","j","u","r">>, <<"b","u","d","i","g","e","r","e","-","c","r","o","s","s">>, <<"d","o","d","d","a","b","a","l","l","a","p","u","r">>,
    <<"c","h","a","n","d","a","p","u","r","a">>, <<"j","i","g","a","n","i">>, <<"a","n","e","k","a","l">>, <<"k","a","s","a","b","a","-","h","o","b","l","i">>, <<"b","i","d","a","r","a","h","a","l","l","i">>, <<"s","a","r","j","a","p","u","r">>,
    <<"h","o","s","k","o","t","e">> }
\* -bangalore-(north|south|east|west)$ : what stands before it, as <<text>>
BeforeZone(s) ==
  TheMatch({ IF EndsWithI(s, <<"-","b","a","n","g","a","l","o","r","e","-">> \o z)
             THEN <<SubSeq(s, 1, Len(s) - Len(z) - 11)>> ELSE NoMatch : z \in ZONES })
\* slug text to display text: dashes to blanks, stripped, title case, cut to n
SlugText(s, n) == Prefix(title(strip(Undashed(s))), n)
\* ^(.+)-(locality)-bangalore-zone$ on p, the text before the zone: <<name, locality>>
TwoWordLocality(p) ==
  TheMatch({ IF EndsWithI(p, <<"-">> \o l) /\ Len(p) > Len(l) + 1
             THEN <<SlugText(SubSeq(p, 1, Len(p) - Len(l) - 1), 200),
                    SlugText(SubSeq(p, Len(p) - Len(l) + 1, Len(p)), 100)>>
             ELSE NoMatch : l \in TWO_WORD_LOCALITIES })
\* ^(.+)-([a-z0-9]+)-bangalore-zone$ on p: the last segment is the locality
OneSegment(p, seg) ==
  IF /\ seg # <<>>
     /\ Len(p) > Len(seg) + 1
     /\ \A i \in 1..Len(seg) : IsCased(seg[i]) \/ IsDigit(seg[i])
  THEN <<SlugText(SubSeq(p, 1, Len(p) - Len(seg) - 1), 200), SlugText(seg, 100)>>
  ELSE NoMatch
\* lines 430-442, on the slug cut before "-npxid"
NameAndLocality(before_npxid, z, two) ==
  IF two # NoMatch THEN two
  ELSE IF z # NoMatch /\ OneSegment(z[1], AfterLast(z[1], "-")) # NoMatch
       THEN OneSegment(z[1], AfterLast(z[1], "-"))
       ELSE <<SlugText(before_npxid, 200), <<>>>>
SlugNameAndLocality(before_npxid, z) ==
  NameAndLocality(before_npxid, z, IF z = NoMatch THEN NoMatch ELSE TwoWordLocality(z[1]))
SlugName(slug) ==
  IF ~Contains(slug, <<"-","n","p","x","i","d">>) \/ ~ContainsI(slug, <<"b","a","n","g","a","l","o","r","e">>) THEN << <<>>, <<>> >>
  ELSE SlugNameAndLocality(strip(BeforeNpxid(slug)), BeforeZone(strip(BeforeNpxid(slug))))
_name_and_locality_from_href(href) ==
  SlugName(AfterLast(rstrip_chars(BeforeFirst(href, "?"), {"/"}), "/"))

(***************************************************************************)
(* Name and locality from the slug, on its own                             *)
(***************************************************************************)
\* the parts a project link is put together from; a piece of the slug comes with the
\* text it stands for and, for a locality, whether the pattern of line 432 lists it
Piece(slug, shown, known) == [slug |-> slug, shown |-> shown, known |-> known]
SlugNames ==
  { Piece(<<>>, <<>>, FALSE),
    Piece(<<"p","r","e","s","t","i","g","e","-","r","a","i","n","t","r","e","e","-","p","a","r","k">>, <<"P","r","e","s","t","i","g","e"," ","R","a","i","n","t","r","e","e"," ","P","a","r","k">>, FALSE),
    Piece(<<"s","o","b","h","a","-","c","i","t","y">>, <<"S","o","b","h","a"," ","C","i","t","y">>, FALSE) }
SlugLocalities ==
  { Piece(<<"w","h","i","t","e","f","i","e","l","d">>, <<"W","h","i","t","e","f","i","e","l","d">>, TRUE),
    Piece(<<"s","a","r","j","a","p","u","r","-","r","o","a","d">>, <<"S","a","r","j","a","p","u","r"," ","R","o","a","d">>, TRUE),
    Piece(<<"s","a","r","j","a","p","u","r">>, <<"S","a","r","j","a","p","u","r">>, TRUE),
    Piece(<<"E","l","e","c","t","r","o","n","i","c","-","C","i","t","y">>, <<"E","l","e","c","t","r","o","n","i","c"," ","C","i","t","y">>, TRUE),
    Piece(<<"k","r","-","p","u","r","a","m">>, <<"K","r"," ","P","u","r","a","m">>, TRUE),
    Piece(<<"j","a","k","k","u","r">>, <<"J","a","k","k","u","r">>, FALSE),
    Piece(<<"s","t",".","j","o","h","n","s">>, <<"S","t",".","J","o","h","n","s">>, FALSE) }
SlugCities == { <<"-","b","a","n","g","a","l","o","r","e">>, <<"-","B","A","N","G","A","L","O","R","E">>, <<"-","m","u","m","b","a","i">> }
SlugZones == { <<"-","e","a","s","t">>, <<"-","N","o","r","t","h">>, <<"-","c","e","n","t","r","a","l">>, <<>> }
SlugMarkers == { <<"-","n","p","x","i","d","-","r","4","3","9","8","9","5">>, <<"-","N","P","X","I","D","-","r","1">>, <<>> }
HrefPrefixes == { <<"/">>, <<"h","t","t","p","s",":","/","/","w","w","w",".","9","9","a","c","r","e","s",".","c","o","m","/">>, <<"/","b","a","n","g","a","l","o","r","e","-","n","p","x","i","d","/">> }
HrefSuffixes == { <<>>, <<"/">>, <<"?","s","r","c","=","a","/","b","-","n","p","x","i","d">> }
HrefInputs ==
  [ name : SlugNames, locality : SlugLocalities, city : SlugCities, zone : SlugZones,
    marker : SlugMarkers, prefix : HrefPrefixes, suffix : HrefSuffixes ]
\* the link the parts make
HrefOf(p) ==
  p.prefix \o p.name.slug \o (IF p.name.slug = <<>> THEN <<>> ELSE <<"-">>) \o p.locality.slug
    \o p.city \o p.zone \o p.marker \o p.suffix
SlugInit == hin \in HrefInputs /\ hout = << <<>>, <<>> >> /\ hpc = "in"
SlugIdle ==
  /\ hin = [ name |-> Piece(<<>>, <<>>, FALSE), locality |-> Piece(<<>>, <<>>, FALSE), city |-> <<>>,
             zone |-> <<>>, marker |-> <<>>, prefix |-> <<>>, suffix |-> <<>> ]
  /\ hout = << <<>>, <<>> >>
  /\ hpc = "idle"
Split ==
  /\ hpc = "in"
  /\ hout' = _name_and_locality_from_href(HrefOf(hin))
  /\ hpc' = "done"
  /\ UNCHANGED hin

\* the last path segment has the marker "-npxid" and the city token
LooksLikeListing(p) == p.marker = <<"-","n","p","x","i","d","-","r","4","3","9","8","9","5">> /\ p.city # <<"-","m","u","m","b","a","i">>
\* the part before the marker ends in "-bangalore-<zone>"
HasZone(p) == p.zone \in { <<"-","e","a","s","t">>, <<"-","N","o","r","t","h">> }
\* C21 as stated: a segment without the marker or the city token gives ("", ""); a
\* segment ending in "<locality>-bangalore-<zone>" with a listed locality gives that
\* whole locality and, as name, everything before it; a locality that is not a listed
\* one is the single segment before "-bangalore-<zone>".
C21_SlugSplit ==
  hpc = "done" =>
    IF ~LooksLikeListing(hin) THEN hout = << <<>>, <<>> >>
    ELSE /\ (HasZone(hin) /\ hin.locality.known) => hout = <<hin.name.shown, hin.locality.shown>>
         /\ (~hin.locality.known /\ hout[2] # <<>>) => hout[2] = hin.locality.shown

\* title.split()[0], "" for a title without a word
extract_builder_from_title(t) == BeforeFirst(BeforeFirst(lstrip(t), " "), "\t")

\* ([A-Za-z]+\s+\d{4}) matched at j
MonthYearAt(s, j, e) ==
  IF /\ IsCased(CharAt(s, j))
     /\ IsSpace(CharAt(s, e + 1))
     /\ \A d \in 0..3 : IsDigit(CharAt(s, SkipSpaces(s, e + 1) + d))
  THEN <<SubSeq(s, j, SkipSpaces(s, e + 1) + 3)>> ELSE NoMatch
\* the end of the run of letters that starts at j
WordEnd(s, j) ==
  IF \A k \in j..Len(s) : IsCased(s[k]) THEN Len(s)
  ELSE Least({ k \in j..Len(s) : ~IsCased(s[k]) }) - 1
MonthYear(s, j) == MonthYearAt(s, j, WordEnd(s, j))
\* (?:Possession:?\s*)?([A-Za-z]+\s+\d{4}) matched at i: with the prefix when that leads
\* to a match, else without
PossessionAt(s, i) ==
  IF /\ MatchAtI(s, i, <<"p","o","s","s","e","s","s","i","o","n">>)
     /\ MonthYear(s, SkipSpaces(s, IF CharAt(s, i + 10) = ":" THEN i + 11 ELSE i + 10)) # NoMatch
  THEN MonthYear(s, SkipSpaces(s, IF CharAt(s, i + 10) = ":" THEN i + 11 ELSE i + 10))
  ELSE MonthYear(s, i)
PossessionSearch(s) == Leftmost([i \in 1..Len(s) |-> PossessionAt(s, i)])
Possession(t, m) ==
  IF ContainsI(t, <<"r","e","a","d","y"," ","t","o"," ","m","o","v","e">>) THEN PyStr(<<"R","e","a","d","y"," ","t","o"," ","m","o","v","e">>)
  ELSE IF m # NoMatch THEN PyStr(strip(m[1])) ELSE PyNone
parse_possession(text) ==
  IF strip(text) = <<>> THEN PyNone ELSE Possession(strip(text), PossessionSearch(strip(text)))

\* re.search(r"\d{4}", s): the first four digits in a row
FourDigits(s) ==
  Leftmost([i \in 1..Len(s) |->
              IF \A d \in 0..3 : IsDigit(CharAt(s, i + d)) THEN <<SubSeq(s, i, i + 3)>>
              ELSE NoMatch])
YearOf(m) == IF m = NoMatch THEN PyNone ELSE PyNum(DigitsValue(m[1]))
_year_from_possession(possession) ==
  IF IsNone(possession) \/ possession[2] = <<>> \/ ContainsI(possession[2], <<"r","e","a","d","y">>) THEN PyNone
  ELSE YearOf(FourDigits(possession[2]))

\* ([A-Za-z\s]+),\s*Bangalore\s*(?:North|South|East|West) matched at i, the run of
\* letters and blanks ending at e
LocalityAt(s, i, e) ==
  IF /\ IsCased(CharAt(s, i)) \/ IsSpace(CharAt(s, i))
     /\ CharAt(s, e + 1) = ","
     /\ MatchAt(s, SkipSpaces(s, e + 2), <<"B","a","n","g","a","l","o","r","e">>)
     /\ \E z \in { <<"N","o","r","t","h">>, <<"S","o","u","t","h">>, <<"E","a","s","t">>, <<"W","e","s","t">> } :
          MatchAt(s, SkipSpaces(s, SkipSpaces(s, e + 2) + 9), z)
  THEN <<SubSeq(s, i, e)>> ELSE NoMatch
NameRunEnd(s, i) ==
  IF \A k \in i..Len(s) : IsCased(s[k]) \/ IsSpace(s[k]) THEN Len(s)
  ELSE Least({ k \in i..Len(s) : ~(IsCased(s[k]) \/ IsSpace(s[k])) }) - 1
LocalitySearch(s) == Leftmost([i \in 1..Len(s) |-> LocalityAt(s, i, NameRunEnd(s, i))])
\* lines 565-567: loc_m.group(1).strip()[:100], "" without a match
LocalityOf(m) == IF m = NoMatch THEN <<>> ELSE Prefix(strip(m[1]), 100)
CardLocality(block_text) == LocalityOf(LocalitySearch(block_text))

\* (\d[\d,\s]*)\s*BHK matched at i, the run of digits, commas and blanks ending at e
BhkAt(s, i, e) ==
  IF IsDigit(CharAt(s, i)) /\ MatchAt(s, e + 1, <<"B","H","K">>) THEN <<SubSeq(s, i, e)>> ELSE NoMatch
BhkRunEnd(s, i) ==
  IF \A k \in i..Len(s) : IsDigit(s[k]) \/ s[k] = "," \/ IsSpace(s[k]) THEN Len(s)
  ELSE Least({ k \in i..Len(s) : ~(IsDigit(s[k]) \/ s[k] = "," \/ IsSpace(s[k])) }) - 1
BhkSearch(s) == Leftmost([i \in 1..Len(s) |-> BhkAt(s, i, BhkRunEnd(s, i))])
BhkOf(m) == IF m = NoMatch THEN <<>> ELSE strip(m[1])
CardBhk(block_text) == BhkOf(BhkSearch(block_text))

(***************************************************************************)
(* The card text of a link.  A text block is given by the text that        *)
(* matters and the number of further characters, none of them a digit; the *)
(* containers around an anchor are given nearest first, each by what it    *)
(* adds to the text of the one inside it.                                  *)
(***************************************************************************)
Block(text, more) == [text |-> text, more |-> more]
\* len(block)
BlockLen(b) == Len(b.text) + b.more
IsSep(c) == IsSpace(c) \/ c = "-"
\* the end of the longest run of [\s-] that starts at i
SepEnd(s, i) ==
  LET stops == { j \in i..Len(s) : ~IsSep(s[j]) } IN
  IF stops = {} THEN Len(s) ELSE Least(stops) - 1
\* (?:L|Lakh|Lac|Cr) at j, ignoring case
RangeUnitAt(s, j) == Lower(CharAt(s, j)) = "l" \/ MatchAtI(s, j, <<"c","r">>)
\* [\d.]+\s*(?:L|Lakh|Lac|Cr) at k
NumeralUnitAt(s, k) == IsNumChar(CharAt(s, k)) /\ RangeUnitAt(s, SkipSpaces(s, NumEnd(s, k) + 1))
\* [\d.]+[\s-]+[\d.]+\s*(?:L|Lakh|Lac|Cr) with the first numeral ending at e
RangeAfter(s, e) == IsSep(CharAt(s, e + 1)) /\ NumeralUnitAt(s, SepEnd(s, e + 1) + 1)
\* a match of line 506 starts at i; matches do not overlap, and a match starts where
\* its numeral starts
RangeStartsAt(s, i) ==
  IsNumChar(s[i]) /\ ~IsNumChar(CharAt(s, i - 1)) /\ RangeAfter(s, NumEnd(s, i))
\* len(re.findall(...)) of line 506
NumRanges(s) == Cardinality({ i \in 1..Len(s) : RangeStartsAt(s, i) })
\* parent.get_text(separator=" ", strip=True): the text inside and the text added
Enclosing(inner, added) ==
  IF BlockLen(added) = 0 THEN inner
  ELSE IF BlockLen(inner) = 0 THEN added
  ELSE Block(inner.text \o (IF added.text = <<>> THEN <<>> ELSE <<" ">> \o added.text),
             inner.more + added.more + (IF added.text = <<>> THEN 1 ELSE 0))
\* the blocks of the containers of an anchor, nearest first
RECURSIVE ParentBlocks(_, _)
ParentBlocks(inner, layers) ==
  IF layers = <<>> THEN <<>>
  ELSE <<Enclosing(inner, Head(layers))>> \o ParentBlocks(Enclosing(inner, Head(layers)), Tail(layers))
\* a walk that takes the first container with a price, whatever its length
RECURSIVE WalkFirstPriced(_, _, _, _)
WalkFirstPriced(parents, k, candidate, own) ==
  IF k > Len(parents) THEN own
  ELSE IF NumRanges(parents[k].text) >= 1 THEN parents[k]
  ELSE WalkFirstPriced(parents, k + 1, candidate, own)
\* lines 501-512: the loop over the containers, candidate <<>> for ""
RECURSIVE Walk(_, _, _, _)
Walk(parents, k, candidate, own) ==
  IF k > Len(parents) THEN (IF candidate # <<>> THEN candidate[1] ELSE own)
  ELSE IF BlockLen(parents[k]) > 5000 THEN Walk(parents, k + 1, candidate, own)
  ELSE IF NumRanges(parents[k].text) <= 1 /\ BlockLen(parents[k]) >= 80 THEN parents[k]
  ELSE Walk(parents, k + 1,
            IF candidate = <<>> /\ NumRanges(parents[k].text) >= 1 THEN <<parents[k]>> ELSE candidate,
            own)
_card_text_for_link(a) == Walk(a.parents, 1, <<>>, Block(a.text, 0))

\* the anchors the card text is studied on: the anchor's text and the layers around it
MaxDepth == 3
Layer(text, more, prices) == [text |-> text, more |-> more, prices |-> prices]
\* what a container adds: nothing, a price range, two cards, a price with two units,
\* words
CardLayers ==
  { Layer(<<>>, 0, 0),
    Layer(<<"1",".","5"," ","-"," ","2",".","5"," ","C","r">>, 0, 1),
    Layer(<<"4","5",".","5","-","9","0"," ","l","a","c">>, 0, 1),
    Layer(<<"7","1"," ","-"," ","9","0"," ","L"," ","G","o","d","r","e","j"," ","A","i","r"," ","1",".","2"," ","-"," ","1",".","5"," ","C","r">>, 0, 2),
    Layer(<<Rupee>> \o <<" ","7","1"," ","L"," ","-"," ","2",".","1","1"," ","C","r">>, 0, 1),
    Layer(<<"3"," ","B","H","K"," ","P","o","s","s","e","s","s","i","o","n",":"," ","S","e","p"," ","2","0","2","8">>, 0, 0),
    Layer(<<>>, 53, 0),
    Layer(<<>>, 4919, 0),
    Layer(<<>>, 5000, 0) }
CardTexts == { <<>>, <<"P","r","e","s","t","i","g","e"," ","P","a","r","k">> }
CardInputs ==
  { [text |-> t, layers |-> ls] :
      t \in CardTexts, ls \in UNION { [1..n -> CardLayers] : n \in 0..MaxDepth } }
\* the anchor as _card_text_for_link sees it
CardAnchor(c) == [text |-> c.text, parents |-> ParentBlocks(Block(c.text, 0), c.layers)]
CardInit == cin \in CardInputs /\ cout = Block(<<>>, 0) /\ cpc = "in"
CardIdle == cin = [text |-> <<>>, layers |-> <<>>] /\ cout = Block(<<>>, 0) /\ cpc = "idle"
CardText ==
  /\ cpc = "in"
  /\ cout' = _card_text_for_link(CardAnchor(cin))
  /\ cpc' = "done"
  /\ UNCHANGED cin

\* the containers of the anchor under study, nearest first, and the prices of listings
\* each holds
Containers == ParentBlocks(Block(cin.text, 0), cin.layers)
RECURSIVE PricesWithin(_, _)
PricesWithin(layers, k) == IF k = 0 THEN 0 ELSE layers[k].prices + PricesWithin(layers, k - 1)
\* C22 as stated: the block returned for an anchor holds at most one price: it is the
\* anchor's own text or the text of a container that holds the price of one listing at
\* most.
C22_AtMostOnePrice ==
  cpc = "done" =>
    \/ cout = Block(cin.text, 0)
    \/ \E k \in 1..Len(cin.layers) : cout = Containers[k] /\ PricesWithin(cin.layers, k) <= 1

\* the containers that are not skipped, those with both conditions, those with a price
NotSkipped == { k \in 1..Len(Containers) : BlockLen(Containers[k]) <= 5000 }
Fitting ==
  { k \in NotSkipped : BlockLen(Containers[k]) >= 80 /\ NumRanges(Containers[k].text) <= 1 }
Priced == { k \in NotSkipped : NumRanges(Containers[k].text) >= 1 }
\* C23: the result is the nearest container of at most 5000 characters with at least 80
\* characters and at most one price-range-shaped substring; without such a container,
\* the nearest one of at most 5000 characters with a price-range-shaped substring;
\* without that, the anchor's own text.
C23_NearestFitting ==
  cpc = "done" =>
    cout = IF Fitting # {} THEN Containers[Least(Fitting)]
           ELSE IF Priced # {} THEN Containers[Least(Priced)]
           ELSE Block(cin.text, 0)
\* the nearest container is short and has no price, the next one has two price ranges
\* and the outermost one is skipped for its length: the result is the one with the prices
C23_Witness ==
  /\ cpc = "done"
  /\ Len(Containers) = MaxDepth
  /\ MaxDepth \notin NotSkipped
  /\ 1 \notin Priced
  /\ Fitting = {}
  /\ Priced # {}
  /\ cout = Containers[Least(Priced)]
  /\ NumRanges(cout.text) = 2

(***************************************************************************)
(* scrape_99acres_list.  A page is what the HTML parsers hand to the code: *)
(* its anchors in document order (href, the anchor's text, the texts of    *)
(* the headings of its nearest container, the card text chosen for it),    *)
(* the length of the HTML, and the project urls the fallback pattern finds *)
(* in the raw HTML with the text of the window around each                 *)
(***************************************************************************)
\* a list kept as it is, duplicates included
KeepAll(rs) == rs
\* the records of rs whose url no earlier record of rs carries, in the order of rs
KeepFirst(rs) ==
  LET marked == [i \in 1..Len(rs) |-> <<rs[i], \A j \in 1..(i - 1) : rs[j].url # rs[i].url>>]
      kept == SelectSeq(marked, LAMBDA p : p[2])
  IN [i \in 1..Len(kept) |-> kept[i][1]]

\* the record built from one project link, lines 575-589 and 479-493
ProjectRecord(id, status, name, locality, prices, possession, handover, bhk, url) ==
  [ id |-> PyStr(id),
    source |-> PyStr(<<"9","9","a","c","r","e","s">>),
    status |-> PyStr(status),
    name |-> PyStr(name),
    builder |-> PyStr(extract_builder_from_title(name)),
    locality |-> PyStr(locality),
    price_min_lakhs |-> prices[2],
    price_max_lakhs |-> prices[3],
    price_display |-> PyStr(_format_price_display(prices[2], prices[3])),
    handover |-> handover,
    handover_year |-> _year_from_possession(possession),
    bhk |-> PyStr(bhk),
    url |-> PyStr(url) ]
\* re.sub(r"[^a-zA-Z0-9]", "", s)[-12:] or str(n)
ShortId(alnum, n) == IF alnum # <<>> THEN Suffix(alnum, 12) ELSE Digits(n)

\* lines 541-547: the first heading of 5 to 200 characters without "Bangalore"
FirstHeading(hs) ==
  Leftmost([i \in 1..Len(hs) |->
              IF Len(strip(hs[i])) >= 5 /\ Len(strip(hs[i])) <= 200
                 /\ ~Contains(strip(hs[i]), <<"B","a","n","g","a","l","o","r","e">>)
              THEN <<strip(hs[i])>> ELSE NoMatch])
\* lines 535-537
LinkText(t) == IF Len(t) < 5 \/ Len(t) > 200 THEN <<>> ELSE t
\* lines 538-547
TextOrHeading(t, h) == IF t # <<>> THEN t ELSE IF h # NoMatch THEN h[1] ELSE <<>>
\* lines 548-550
NameOrSlug(name, href) ==
  Prefix(strip(IF name = <<>> \/ Len(name) < 5
               THEN (IF title(BeforeNpxidCased(Undashed(AfterLast(href, "/")))) # <<>>
                     THEN title(BeforeNpxidCased(Undashed(AfterLast(href, "/"))))
                     ELSE <<"P","r","o","j","e","c","t">>)
               ELSE name), 200)
DomName(a) == NameOrSlug(TextOrHeading(LinkText(strip(a.text)), FirstHeading(a.headings)), a.href)
\* lines 531-557: the name and locality of the url when it yields a name, else of the page
LinkName(a, from_url) == IF from_url[1] # <<>> THEN from_url[1] ELSE DomName(a)
LinkLocality(from_url, card) ==
  IF from_url[1] # <<>> THEN from_url[2] ELSE IF card # <<>> THEN card ELSE from_url[2]
\* lines 564-569
FinalLocality(locality, from_url, card) ==
  IF locality # <<>> THEN locality ELSE IF card # <<>> THEN card ELSE from_url[2]
\* line 585
Handover(possession) == IF IsNone(possession) THEN PyStr(<<>>) ELSE PyStr(strip(possession[2]))

\* lines 590-592: the record is left out when its name is junk
UnlessJunk(record) == IF _is_junk_project_name(record.name[2]) THEN <<>> ELSE <<record>>
\* lines 528-592 for an anchor that passed the href filter
LinkRecord(a, full_url, from_url, status, n) ==
  UnlessJunk(ProjectRecord(
    ShortId(AlnumOnly(a.href), n), status, LinkName(a, from_url),
    Prefix(FinalLocality(LinkLocality(from_url, CardLocality(a.block)), from_url,
                         CardLocality(a.block)), 100),
    parse_price_range(a.block), parse_possession(a.block),
    Handover(parse_possession(a.block)), CardBhk(a.block), full_url))
\* lines 521-526
LinkUrl(a, base_url) == BeforeFirst(urljoin(base_url, a.href), "?")
AnchorRecords(a, base_url, status, n) ==
  IF ~Contains(a.href, <<"n","p","x","i","d">>) \/ ~ContainsI(a.href, <<"b","a","n","g","a","l","o","r","e">>) THEN <<>>
  ELSE IF ~startswith(LinkUrl(a, base_url), <<"h","t","t","p">>) THEN <<>>
  ELSE LinkRecord(a, LinkUrl(a, base_url), _name_and_locality_from_href(a.href), status, n)
\* the loop of lines 520-592 from anchor k on
RECURSIVE ScrapeAnchors(_, _, _, _, _)
ScrapeAnchors(anchors, k, base_url, status, results) ==
  IF k > Len(anchors) THEN results
  ELSE ScrapeAnchors(anchors, k + 1, base_url, status,
                     results \o AnchorRecords(anchors[k], base_url, status, Len(results)))

\* lines 470-474
RawName(from_slug, slug) ==
  IF from_slug[1] # <<>> THEN from_slug[1]
  ELSE IF title(BeforeNpxidCased(Undashed(slug))) # <<>>
       THEN title(BeforeNpxidCased(Undashed(slug))) ELSE <<"P","r","o","j","e","c","t">>
RawSlug(full_url) == IF AfterLast(full_url, "/") # <<>> THEN AfterLast(full_url, "/") ELSE full_url
\* lines 463-493 for a url not seen before
RawRecord(full_url, from_slug, window_text, status, n) ==
  ProjectRecord(
    ShortId(AlnumOnly(full_url), n), status, Prefix(RawName(from_slug, RawSlug(full_url)), 200),
    from_slug[2], parse_price_range(window_text), parse_possession(window_text),
    parse_possession(window_text), CardBhk(window_text), full_url)
\* line 456
RawUrl(m, base_url) == IF ~IsNone(m.group1) THEN m.group1[2] ELSE urljoin(base_url, m.group2[2])
\* lines 457-462
RawRecords(m, url, status, results) ==
  IF url = <<>> \/ ~ContainsI(url, <<"b","a","n","g","a","l","o","r","e">>) \/ ~Contains(url, <<"n","p","x","i","d">>) THEN <<>>
  ELSE IF \E i \in 1..Len(results) :
            results[i].url[2] = rstrip_chars(BeforeFirst(url, "?"), {".", ",", ";", ":", ")"})
  THEN <<>>
  ELSE <<RawRecord(rstrip_chars(BeforeFirst(url, "?"), {".", ",", ";", ":", ")"}),
                   _name_and_locality_from_href(
                     <<"/">> \o RawSlug(rstrip_chars(BeforeFirst(url, "?"), {".", ",", ";", ":", ")"}))),
                   m.window_text, status, Len(results))>>
\* the loop of lines 455-493 from match k on
RECURSIVE ExtractFromRaw(_, _, _, _, _)
ExtractFromRaw(raw, k, base_url, status, results) ==
  IF k > Len(raw) THEN results
  ELSE ExtractFromRaw(raw, k + 1, base_url, status,
                      results \o RawRecords(raw[k], RawUrl(raw[k], base_url), status, results))
_extract_from_raw_html(html, base_url, status) == ExtractFromRaw(html.raw, 1, base_url, status, <<>>)

\* url_pattern (lines 448-452) on a run of characters other than quotes, angle brackets
\* and white space.  A fully-qualified url: the host, then as little as possible up to
\* "npxid", then as little as possible up to "r" and digits.
URL_HOSTS ==
  { <<"h","t","t","p","s",":","/","/","w","w","w",".","9","9","a","c","r","e","s",".","c","o","m","/">>, <<"h","t","t","p","s",":","/","/","9","9","a","c","r","e","s",".","c","o","m","/">>, <<"h","t","t","p",":","/","/","w","w","w",".","9","9","a","c","r","e","s",".","c","o","m","/">>,
    <<"h","t","t","p",":","/","/","9","9","a","c","r","e","s",".","c","o","m","/">> }
\* the end of the longest run of digits that starts at i
DigitsEnd(s, i) ==
  LET stops == { j \in i..Len(s) : ~IsDigit(s[j]) } IN
  IF stops = {} THEN Len(s) ELSE Least(stops) - 1
\* r\d+ after the "npxid" that starts at p
FullUrlFromMarker(t, i, p) ==
  LET rs == { q \in (p + 5)..(Len(t) - 1) : Lower(t[q]) = "r" /\ IsDigit(t[q + 1]) } IN
  IF rs = {} THEN NoMatch ELSE <<SubSeq(t, i, DigitsEnd(t, Least(rs) + 1))>>
\* [^"'<>\s]+?npxid after the host that ends before h
FullUrlFromHost(t, i, h) ==
  LET ps == { p \in (h + 1)..Len(t) : MatchAtI(t, p, <<"n","p","x","i","d">>) } IN
  IF ps = {} THEN NoMatch ELSE FullUrlFromMarker(t, i, Least(ps))
\* group 1 of a match that starts at i
FullUrlAt(t, i) ==
  TheMatch({ IF MatchAtI(t, i, h) THEN FullUrlFromHost(t, i, i + Len(h)) ELSE NoMatch : h \in URL_HOSTS })
IsSlugChar(c) == IsDigit(c) \/ IsCased(c) \/ c = "-"
\* -bangalore-(north|south|east|west)-npxid-r\d+ at b
ZoneMarkerAt(t, b) ==
  /\ MatchAtI(t, b, <<"-","b","a","n","g","a","l","o","r","e","-">>)
  /\ \E z \in ZONES :
       /\ MatchAtI(t, b + 11, z \o <<"-","n","p","x","i","d","-","r">>)
       /\ IsDigit(CharAt(t, b + 19 + Len(z)))
\* /(?:[a-z0-9-]+/)*[a-z0-9-]+ from i up to b, where "-bangalore-" starts
PathUpTo(t, i, b) ==
  /\ t[i] = "/"
  /\ b > i + 1
  /\ \A k \in (i + 1)..(b - 1) : IsSlugChar(t[k]) \/ (t[k] = "/" /\ t[k - 1] # "/")
  /\ t[b - 1] # "/"
\* group 2 of a match that starts at i: the path and the rest of the run
PathAt(t, i) ==
  IF \E b \in (i + 2)..Len(t) : PathUpTo(t, i, b) /\ ZoneMarkerAt(t, b)
  THEN <<SubSeq(t, i, Len(t))>> ELSE NoMatch
\* the first match of url_pattern in the run t, if there is one
UrlStarts(t) == { i \in 1..Len(t) : FullUrlAt(t, i) # NoMatch \/ PathAt(t, i) # NoMatch }
UrlGroups(t, i) ==
  IF FullUrlAt(t, i) # NoMatch THEN [group1 |-> PyStr(FullUrlAt(t, i)[1]), group2 |-> PyNone]
  ELSE [group1 |-> PyNone, group2 |-> PyStr(PathAt(t, i)[1])]
url_pattern(t) == IF UrlStarts(t) = {} THEN NoMatch ELSE <<UrlGroups(t, Least(UrlStarts(t)))>>
\* a document of runs with a blank before and after each, short enough for the window
\* of lines 465-470 to be the whole document
RECURSIVE Spaced(_)
Spaced(runs) == IF runs = <<>> THEN <<" ">> ELSE <<" ">> \o Head(runs) \o Spaced(Tail(runs))
\* url_pattern.finditer(html) on that document: the matches with their windows
RECURSIVE Finditer(_, _)
Finditer(runs, text) ==
  IF runs = <<>> THEN <<>>
  ELSE (IF url_pattern(Head(runs)) = NoMatch THEN <<>>
        ELSE << [group1 |-> url_pattern(Head(runs))[1].group1,
                 group2 |-> url_pattern(Head(runs))[1].group2,
                 window_text |-> text] >>)
       \o Finditer(Tail(runs), text)

\* a fallback that is tried whatever the anchors gave and however short the page is
WithFallbackAlways(found, html, base_url, status) ==
  KeepFirst(found \o _extract_from_raw_html(html, base_url, status))
\* lines 602-609: the raw HTML is searched when the anchors gave fewer than three records
\* and the page is longer than 5000 characters; a url already seen adds nothing
WithFallback(found, html, base_url, status) ==
  IF Len(found) < 3 /\ html.size > 5000
  THEN KeepFirst(found \o _extract_from_raw_html(html, base_url, status)) ELSE found
scrape_99acres_list(html, base_url, status) ==
  WithFallback(KeepFirst(ScrapeAnchors(html.anchors, 1, base_url, status, <<>>)),
               html, base_url, status)

(***************************************************************************)
(* The detail pages and the overlay of --enrich.  A detail page is given   *)
(* by its length, its text once the tags are gone and white space is       *)
(* collapsed, and the groups of the first match of each pattern the        *)
(* parser searches for (NoMatch where the pattern is not found).           *)
(***************************************************************************)
NoDetails == [k \in {} |-> PyNone]
RemoveSpaces(s) == SelectSeq(s, LAMBDA c : c # " ")
\* lines 847-855: name and locality of the heading, else of the title line
NameOfMatch(m) ==
  [ name |-> PyStr(Prefix(strip(m[1]), 200)),
    locality |-> PyStr(Prefix(strip(m[2]) \o <<","," ","B","a","n","g","a","l","o","r","e">>, 100)) ]
\* lines 856-861: else the name the url's slug gives, with its locality when it has one
NameOfSlug(from_url) ==
  IF from_url[1] = <<>> THEN NoDetails
  ELSE IF from_url[2] = <<>> THEN [ name |-> PyStr(from_url[1]) ]
  ELSE [ name |-> PyStr(from_url[1]), locality |-> PyStr(from_url[2]) ]
DetailName(doc, page_url) ==
  IF doc.heading # NoMatch THEN NameOfMatch(doc.heading)
  ELSE IF doc.title # NoMatch THEN NameOfMatch(doc.title)
  ELSE IF page_url # <<>> THEN NameOfSlug(_name_and_locality_from_href(<<"/">> \o AfterLast(page_url, "/")))
  ELSE NoDetails
\* lines 864-872
DetailBuilder(doc, named) ==
  IF doc.brought # NoMatch THEN [ builder |-> PyStr(Prefix(strip(doc.brought[1]), 100)) ]
  ELSE IF doc.about # NoMatch THEN [ builder |-> PyStr(Prefix(strip(doc.about[1]), 100)) ]
  ELSE IF "name" \in DOMAIN named /\ named.name[2] # <<>>
       THEN [ builder |-> PyStr(extract_builder_from_title(named.name[2])) ]
  ELSE NoDetails
\* lines 875-880
DetailStatus(text) ==
  IF Contains(lower(text), <<"u","n","d","e","r"," ","c","o","n","s","t","r","u","c","t","i","o","n">>) THEN [ status |-> PyStr(<<"u","n","d","e","r","_","c","o","n","s","t","r","u","c","t","i","o","n">>) ]
  ELSE IF Contains(lower(text), <<"r","e","a","d","y"," ","t","o"," ","m","o","v","e">>) THEN [ status |-> PyStr(<<"r","e","a","d","y","_","t","o","_","m","o","v","e">>) ]
  ELSE IF Contains(lower(text), <<"n","e","w"," ","l","a","u","n","c","h">>) THEN [ status |-> PyStr(<<"n","e","w","_","l","a","u","n","c","h">>) ]
  ELSE NoDetails
\* lines 883-896: "Completion from <month>, <year> onwards", else "Possession [in] <month>
\* <year>", else "Ready to move", which comes without a handover_year
DetailHandover(doc) ==
  IF doc.completion # NoMatch
  THEN [ handover |-> PyStr(Prefix(strip(doc.completion[1]), 3) \o <<" ">> \o doc.completion[2]),
         handover_year |-> PyNum(DigitsValue(doc.completion[2])) ]
  ELSE IF doc.possession # NoMatch
  THEN [ handover |-> PyStr(Prefix(strip(doc.possession[1]), 50)),
         handover_year |-> _year_from_possession(PyStr(Prefix(strip(doc.possession[1]), 50))) ]
  ELSE IF Contains(lower(doc.text), <<"r","e","a","d","y"," ","t","o"," ","m","o","v","e">>) THEN [ handover |-> PyStr(<<"R","e","a","d","y"," ","t","o"," ","m","o","v","e">>) ]
  ELSE NoDetails
\* lines 899-903
PriceDetails(prices) ==
  IF IsNone(prices[2]) /\ IsNone(prices[3]) THEN NoDetails
  ELSE [ price_min_lakhs |-> prices[2], price_max_lakhs |-> prices[3],
         price_display |-> PyStr(_format_price_display(prices[2], prices[3])) ]
\* lines 906-912
DetailBhk(doc) ==
  IF doc.bhk_apartment # NoMatch THEN [ bhk |-> PyStr(Prefix(RemoveSpaces(strip(doc.bhk_apartment[1])), 30)) ]
  ELSE IF doc.bhk # NoMatch THEN [ bhk |-> PyStr(Prefix(RemoveSpaces(strip(doc.bhk[1])), 30)) ]
  ELSE NoDetails
Named99(doc, named) ==
  named @@ DetailBuilder(doc, named) @@ DetailStatus(doc.text) @@ DetailHandover(doc)
        @@ PriceDetails(parse_price_range(doc.text)) @@ DetailBhk(doc)
_parse_99acres_detail_page(html, page_url) ==
  IF IsNone(html) \/ html[2].size < 500 THEN NoDetails
  ELSE Named99(html[2], DetailName(html[2], page_url))

\* an overlay that takes every value of the detail page
OverlayAll(record, details) ==
  [ key \in DOMAIN record |-> IF key \in DOMAIN details THEN details[key] ELSE record[key] ]
\* a faulty overlay: the id follows the name of the detail page
OverlayRenaming(record, details) ==
  [ key \in DOMAIN record |->
      IF key = "id" /\ "name" \in DOMAIN details THEN details.name
      ELSE IF key \in DOMAIN details /\ ~IsNone(details[key]) /\ details[key] # PyStr(<<>>)
      THEN details[key] ELSE record[key] ]

\* lines 924-927 and 941-944: a value of the detail page replaces the record's unless it
\* is None or the empty string
Overlay(record, details) ==
  [ key \in DOMAIN record |->
      IF key \in DOMAIN details /\ ~IsNone(details[key]) /\ details[key] # PyStr(<<>>)
      THEN details[key] ELSE record[key] ]
\* lines 918-923 after the fetch: nothing happens without a url of a 99acres project or
\* without a page
IsProjectUrl99(url) ==
  IsStr(url) /\ url[2] # <<>> /\ Contains(url[2], <<"9","9","a","c","r","e","s",".","c","o","m">>) /\ Contains(url[2], <<"n","p","x","i","d">>)
Enriched99(record, html) ==
  IF ~IsProjectUrl99(record.url) \/ IsNone(html) \/ html[2].size = 0 THEN record
  ELSE Overlay(record, _parse_99acres_detail_page(html, record.url[2]))

\* the detail pages 99acres serves
ParkDetail ==
  [size |-> 900, text |-> <<" ","#"," ","P","r","e","s","t","i","g","e"," ","P","a","r","k"," ","W","h","i","t","e","f","i","e","l","d",","," ","B","a","n","g","a","l","o","r","e"," ","B","r","o","u","g","h","t"," ","t","o"," ","y","o","u"," ","b","y"," ","P","r","e","s","t","i","g","e"," ","G","r","o","u","p",","," ","R","e","a","d","y"," ","t","o"," ","m","o","v","e"," ","2",","," ","3"," ","B","H","K"," ","A","p","a","r","t","m","e","n","t"," ",Rupee," ","2",".","1","1"," ","C","r">>, heading |-> <<<<"P","r","e","s","t","i","g","e">>, <<"P","a","r","k"," ","W","h","i","t","e","f","i","e","l","d">>>>, title |-> NoMatch, brought |-> <<<<"P","r","e","s","t","i","g","e"," ","G","r","o","u","p">>>>, about |-> NoMatch, completion |-> NoMatch, possession |-> NoMatch, bhk_apartment |-> <<<<"2",","," ","3"," ">>>>, bhk |-> <<<<"2",","," ","3"," ">>>>]
SobhaDetail ==
  [size |-> 1200, text |-> <<" ","S","o","b","h","a"," ","C","i","t","y",","," ","H","e","b","b","a","l",","," ","B","a","n","g","a","l","o","r","e"," ","-"," ","P","r","i","c","e"," ","o","n"," ","r","e","q","u","e","s","t"," ","A","b","o","u","t"," ","S","o","b","h","a"," ","L","i","m","i","t","e","d"," ","T","h","e"," ","d","e","v","e","l","o","p","e","r"," ","C","o","m","p","l","e","t","i","o","n"," ","f","r","o","m"," ","D","e","c","e","m","b","e","r",","," ","2","0","3","0"," ","o","n","w","a","r","d","s"," ","U","n","d","e","r"," ","C","o","n","s","t","r","u","c","t","i","o","n"," ","3"," ","B","H","K">>, heading |-> NoMatch, title |-> <<<<"S","o","b","h","a"," ","C","i","t","y">>, <<"H","e","b","b","a","l">>>>, brought |-> NoMatch, about |-> <<<<"S","o","b","h","a"," ","L","i","m","i","t","e","d">>>>, completion |-> <<<<"D","e","c","e","m","b","e","r">>, <<"2","0","3","0">>>>, possession |-> NoMatch, bhk_apartment |-> NoMatch, bhk |-> <<<<"3"," ">>>>]
AzurDetail ==
  [size |-> 300, text |-> <<" ","#"," ","L","o","d","h","a"," ","A","z","u","r"," ","B","a","n","n","e","r","g","h","a","t","t","a"," ","R","o","a","d",","," ","B","a","n","g","a","l","o","r","e"," ","P","o","s","s","e","s","s","i","o","n"," ","i","n"," ","D","e","c"," ","2","0","3","0">>, heading |-> <<<<"L","o","d","h","a">>, <<"A","z","u","r"," ","B","a","n","n","e","r","g","h","a","t","t","a"," ","R","o","a","d">>>>, title |-> NoMatch, brought |-> NoMatch, about |-> NoMatch, completion |-> NoMatch, possession |-> <<<<"D","e","c"," ","2","0","3","0">>>>, bhk_apartment |-> NoMatch, bhk |-> NoMatch]
SuncrestDetail ==
  [size |-> 600, text |-> <<" ","P","o","s","s","e","s","s","i","o","n"," ","i","n"," ","M","a","r"," ","2","0","2","9"," ","N","e","w"," ","L","a","u","n","c","h"," ",Rupee," ","8","0"," ","L"," ","-"," ","1",".","2"," ","C","r">>, heading |-> NoMatch, title |-> NoMatch, brought |-> NoMatch, about |-> NoMatch, completion |-> NoMatch, possession |-> <<<<"M","a","r"," ","2","0","2","9">>>>, bhk_apartment |-> NoMatch, bhk |-> NoMatch]

\* s.find(pat) + 1: the place of the first occurrence of pat in s, 0 when there is none
FirstAt(s, pat) ==
  IF Contains(s, pat) THEN Least({ i \in 1..(Len(s) - Len(pat) + 1) : MatchAt(s, i, pat) }) ELSE 0
\* text[max(0, at - 20) : at + 50] for the 0-based place at = k - 1
Around(text, k) ==
  SubSeq(text, IF k > 20 THEN k - 20 ELSE 1, IF k + 49 < Len(text) THEN k + 49 ELSE Len(text))

\* lines 778-793: the first of the three "X Cr - Y Cr" patterns whose numbers are floats
\* with low <= high < 1000
NbRangePrice(doc) ==
  IF CroreBounds(Floats(doc.cr_range)) # NoMatch THEN CroreBounds(Floats(doc.cr_range))
  ELSE IF CroreBounds(Floats(doc.rs_range)) # NoMatch THEN CroreBounds(Floats(doc.rs_range))
  ELSE CroreBounds(Floats(doc.crores_range))
\* lines 786-799: else what parse_price_range finds in the text
NbPrice(doc, range) ==
  IF range # NoMatch
  THEN [ price_min_lakhs |-> range[1], price_max_lakhs |-> range[2],
         price_display |-> PyStr(_format_price_display(range[1], range[2])) ]
  ELSE PriceDetails(parse_price_range(doc.text))
\* lines 801-803
NbBuilder(doc) ==
  IF doc.by # NoMatch THEN [ builder |-> PyStr(Prefix(strip(doc.by[1]), 100)) ] ELSE NoDetails
\* lines 805-816: the address that begins with "Near", else the one around a known area
NbLocality(doc) ==
  IF /\ doc.near # NoMatch
     /\ Len(strip(doc.near[1])) > 15 /\ Len(strip(doc.near[1])) < 200
     /\ ~Contains(lower(strip(doc.near[1])), <<"n","o","b","r","o","k","e","r">>)
  THEN [ locality |-> PyStr(Prefix(strip(doc.near[1]), 150)) ]
  ELSE IF doc.area # NoMatch /\ ~Contains(lower(strip(doc.area[1])), <<"n","o","b","r","o","k","e","r">>)
  THEN [ locality |-> PyStr(Prefix(strip(doc.area[1]), 150)) ]
  ELSE NoDetails
\* lines 818-821
NbStatus(text) ==
  IF Contains(lower(text), <<"u","n","d","e","r"," ","c","o","n","s","t","r","u","c","t","i","o","n">>) THEN [ status |-> PyStr(<<"u","n","d","e","r","_","c","o","n","s","t","r","u","c","t","i","o","n">>) ]
  ELSE IF \/ Contains(lower(text), <<"r","e","a","d","y"," ","t","o"," ","m","o","v","e">>)
          \/ /\ Contains(lower(text), <<"r","e","a","d","y">>)
             /\ ~Contains(Around(text, FirstAt(lower(text), <<"r","e","a","d","y">>)), <<"p","o","s","s","e","s","s","i","o","n">>)
  THEN [ status |-> PyStr(<<"r","e","a","d","y","_","t","o","_","m","o","v","e">>) ]
  ELSE NoDetails
\* lines 823-830: the year is left out when it is None or 0
NbHandoverOf(handover, y) ==
  IF IsNum(y) /\ y[2] # 0 THEN [ handover |-> PyStr(handover), handover_year |-> y ]
  ELSE [ handover |-> PyStr(handover) ]
NbHandover(doc) ==
  IF doc.possession_in # NoMatch
  THEN NbHandoverOf(strip(doc.possession_in[1]), _year_from_possession(PyStr(strip(doc.possession_in[1]))))
  ELSE IF Contains(lower(doc.text), <<"p","o","s","s","e","s","s","i","o","n">>) /\ Contains(lower(doc.text), <<"f","e","b","r","u","a","r","y"," ","2","0","3","0">>)
  THEN [ handover |-> PyStr(<<"F","e","b"," ","2","0","3","0">>), handover_year |-> PyNum(2030) ]
  ELSE NoDetails
\* lines 832-834
NbBhk(doc) ==
  IF doc.bhk # NoMatch THEN [ bhk |-> PyStr(Prefix(RemoveSpaces(strip(doc.bhk[1])), 30)) ]
  ELSE NoDetails
_parse_nobroker_detail_page(html) ==
  IF IsNone(html) \/ html[2].size < 500 THEN NoDetails
  ELSE NbPrice(html[2], NbRangePrice(html[2])) @@ NbBuilder(html[2]) @@ NbLocality(html[2])
       @@ NbStatus(html[2].text) @@ NbHandover(html[2]) @@ NbBhk(html[2])
\* lines 932-940 after the fetch: nothing happens without a url of a NoBroker project or
\* without a page
IsProjectUrlNb(url) ==
  /\ IsStr(url) /\ url[2] # <<>> /\ Contains(url[2], <<"n","o","b","r","o","k","e","r",".","i","n">>)
  /\ ~Contains(url[2], <<"n","e","w","-","p","r","o","j","e","c","t","s","-","i","n">>) /\ ~Contains(url[2], <<"-","p","a","g","e","-">>)
EnrichedNb(record, html) ==
  IF ~IsProjectUrlNb(record.url) \/ IsNone(html) \/ html[2].size = 0 THEN record
  ELSE Overlay(record, _parse_nobroker_detail_page(html))

\* the detail pages NoBroker serves
WelkinDetail ==
  [size |-> 1500, text |-> <<" ","B","y"," ","A","d","a","r","s","h"," ","D","e","v","e","l","o","p","e","r","s"," ","E","s","t","."," ","1","9","8","8"," ",Rupee,"1",".","4","2"," ","C","r"," ","-"," ",Rupee,"2",".","2","2"," ","C","r"," ","N","e","a","r"," ","R","S"," ","P","a","l","a","c","e",","," ","G","u","n","j","u","r"," ","V","i","l","l","a","g","e",","," ","V","a","r","t","h","u","r"," ","M","a","i","n"," ","R","o","a","d",","," ","B","a","n","g","a","l","o","r","e","."," ","P","o","s","s","e","s","s","i","o","n"," ","i","n"," ","F","e","b","r","u","a","r","y"," ","2","0","3","0"," ","2",","," ","2",".","5",","," ","3"," ","B","H","K"," ","U","n","d","e","r"," ","C","o","n","s","t","r","u","c","t","i","o","n">>, cr_range |-> <<<<"1",".","4","2">>, <<"2",".","2","2">>>>, rs_range |-> NoMatch, crores_range |-> NoMatch, by |-> <<<<"A","d","a","r","s","h"," ","D","e","v","e","l","o","p","e","r","s">>>>, near |-> <<<<"N","e","a","r"," ","R","S"," ","P","a","l","a","c","e",","," ","G","u","n","j","u","r"," ","V","i","l","l","a","g","e",","," ","V","a","r","t","h","u","r"," ","M","a","i","n"," ","R","o","a","d",","," ","B","a","n","g","a","l","o","r","e",".">>>>, area |-> <<<<"C","r"," ","N","e","a","r"," ","R","S"," ","P","a","l","a","c","e",","," ","G","u","n","j","u","r"," ","V","i","l","l","a","g","e",","," ","V","a","r","t","h","u","r"," ","M","a","i","n"," ","R","o","a","d",","," ","B","a","n","g","a","l","o","r","e",".">>>>, possession_in |-> <<<<"F","e","b","r","u","a","r","y"," ","2","0","3","0">>>>, bhk |-> <<<<"2","0","3","0"," ","2",","," ","2",".","5",","," ","3"," ">>>>]
LakesideDetail ==
  [size |-> 700, text |-> <<" ","R","s","."," ","1","2","0","0"," ","C","r","o","r","e","s"," ","t","o"," ","R","s","."," ","1","3","0","0"," ","C","r","o","r","e","s"," ","H","o","m","e","s"," ","t","h","a","t"," ","a","r","e"," ","r","e","a","d","y"," ","n","o","w"," ","8","5"," ","L","a","c"," ","o","n","w","a","r","d","s"," ","P","o","s","s","e","s","s","i","o","n"," ","i","n"," ","R","e","a","d","y"," ","0","0","0","0">>, cr_range |-> NoMatch, rs_range |-> <<<<"1","2","0","0">>, <<"1","3","0","0">>>>, crores_range |-> NoMatch, by |-> NoMatch, near |-> NoMatch, area |-> NoMatch, possession_in |-> <<<<"R","e","a","d","y"," ","0","0","0","0">>>>, bhk |-> NoMatch]
\* the NoBroker listing page, given by the records scrape_nobroker_list returns for it: a
\* card of a project under construction, a card of a finished one, and a link that is
\* no project
NbListing ==
  [ items |-> << [id |-> <<"str", <<"r","r","o","a","d","b","a","n","g","a","l","o","r","e">>>>, source |-> <<"str", <<"n","o","b","r","o","k","e","r">>>>, status |-> <<"str", <<"u","n","d","e","r","_","c","o","n","s","t","r","u","c","t","i","o","n">>>>, name |-> <<"str", <<"A","d","a","r","s","h"," ","W","e","l","k","i","n"," ","P","a","r","k">>>>, builder |-> <<"str", <<"A","d","a","r","s","h"," ","D","e","v","e","l","o","p","e","r","s">>>>, locality |-> <<"str", <<"O","f","f"," ","S","a","r","j","a","p","u","r","a"," ","R","o","a","d">>>>, price_min_lakhs |-> PyNum(14200), price_max_lakhs |-> PyNone, price_display |-> <<"str", <<Rupee," ","1",".","4","2"," ","-"," ","1",".","4","2"," ","C","r">>>>, handover |-> <<"str", <<>>>>, handover_year |-> PyNone, bhk |-> <<"str", <<"2",",","3",",","4">>>>, url |-> <<"str", <<"h","t","t","p","s",":","/","/","w","w","w",".","n","o","b","r","o","k","e","r",".","i","n","/","a","d","a","r","s","h","-","w","e","l","k","i","n","-","p","a","r","k","-","s","a","r","j","a","p","u","r","-","r","o","a","d","-","b","a","n","g","a","l","o","r","e">>>>],
               [id |-> <<"str", <<"r","t","h","u","r","b","a","n","g","a","l","o","r","e">>>>, source |-> <<"str", <<"n","o","b","r","o","k","e","r">>>>, status |-> <<"str", <<"r","e","a","d","y","_","t","o","_","m","o","v","e">>>>, name |-> <<"str", <<"P","r","e","s","t","i","g","e"," ","L","a","k","e","s","i","d","e"," ","H","a","b","i","t","a","t">>>>, builder |-> <<"str", <<"P","r","e","s","t","i","g","e">>>>, locality |-> <<"str", <<"V","a","r","t","h","u","r">>>>, price_min_lakhs |-> PyNum(8500), price_max_lakhs |-> PyNone, price_display |-> <<"str", <<Rupee," ","8","5",".","0","0"," ","-"," ","8","5",".","0","0"," ","L">>>>, handover |-> <<"str", <<"R","e","a","d","y"," ","t","o"," ","m","o","v","e">>>>, handover_year |-> PyNone, bhk |-> <<"str", <<"1",",","2">>>>, url |-> <<"str", <<"h","t","t","p","s",":","/","/","w","w","w",".","n","o","b","r","o","k","e","r",".","i","n","/","p","r","e","s","t","i","g","e","-","l","a","k","e","s","i","d","e","-","h","a","b","i","t","a","t","-","v","a","r","t","h","u","r","-","b","a","n","g","a","l","o","r","e">>>>] >>,
    size |-> 2500 ]
scrape_nobroker_list(html, base_url) == html.items

(***************************************************************************)
(* run_scraper and main.  The web is the pages each 99acres category and   *)
(* the NoBroker listing serve, page 1 first; None is a fetch that gave up, *)
(* and so is every page past the last one.                                 *)
(***************************************************************************)
\* the largest value of --max-pages
MaxPages == 3

SOURCE_URLS ==
  << [status |-> <<"n","e","w","_","l","a","u","n","c","h">>,
      url |-> <<"h","t","t","p","s",":","/","/","w","w","w",".","9","9","a","c","r","e","s",".","c","o","m","/","n","e","w","-","l","a","u","n","c","h","-","p","r","o","j","e","c","t","s","-","i","n","-","b","a","n","g","a","l","o","r","e","-","f","f","i","d">>],
     [status |-> <<"u","n","d","e","r","_","c","o","n","s","t","r","u","c","t","i","o","n">>,
      url |-> <<"h","t","t","p","s",":","/","/","w","w","w",".","9","9","a","c","r","e","s",".","c","o","m","/","u","n","d","e","r","-","c","o","n","s","t","r","u","c","t","i","o","n","-","p","r","o","j","e","c","t","s","-","i","n","-","b","a","n","g","a","l","o","r","e","-","f","f","i","d">>],
     [status |-> <<"r","e","a","d","y","_","t","o","_","m","o","v","e">>,
      url |-> <<"h","t","t","p","s",":","/","/","w","w","w",".","9","9","a","c","r","e","s",".","c","o","m","/","r","e","a","d","y","-","t","o","-","m","o","v","e","-","p","r","o","j","e","c","t","s","-","i","n","-","b","a","n","g","a","l","o","r","e","-","f","f","i","d">>] >>

Html(doc) == <<"html", doc>>
Anchor(href, text, block) == [href |-> href, text |-> text, headings |-> <<>>, block |-> block]
PrestigePark == <<"/","p","r","e","s","t","i","g","e","-","p","a","r","k","-","w","h","i","t","e","f","i","e","l","d","-","b","a","n","g","a","l","o","r","e","-","e","a","s","t","-","n","p","x","i","d","-","r","1">>
LodhaAzur == <<"/","l","o","d","h","a","-","a","z","u","r","-","b","a","n","n","e","r","g","h","a","t","t","a","-","r","o","a","d","-","b","a","n","g","a","l","o","r","e","-","s","o","u","t","h","-","n","p","x","i","d","-","r","4","2","4","4","6","2">>
PageOne ==
  [ anchors |->
      << Anchor(PrestigePark, <<"P","r","e","s","t","i","g","e"," ","P","a","r","k">>,
                <<"P","r","e","s","t","i","g","e"," ","P","a","r","k"," ","W","h","i","t","e","f","i","e","l","d",","," ","B","a","n","g","a","l","o","r","e"," ","E","a","s","t"," ">> \o <<Rupee>> \o <<" ","7","1"," ","L"," ","-"," ","2",".","1","1"," ","C","r"," ","P","o","s","s","e","s","s","i","o","n",":"," ","S","e","p"," ","2","0","2","8"," ","2",","," ","3"," ","B","H","K">>),
         Anchor(<<"/","a","b","o","u","t","-","u","s">>, <<"A","b","o","u","t">>, <<"A","b","o","u","t"," ","u","s">>),
         Anchor(<<"/","b","a","n","g","a","l","o","r","e","/","q","u","i","c","k","-","n","p","x","i","d">>, <<"Q","u","i","c","k"," ","L","i","n","k","s">>, <<"Q","u","i","c","k"," ","L","i","n","k","s">>),
         Anchor(LodhaAzur, <<"L","o","d","h","a"," ","A","z","u","r">>,
                <<"L","o","d","h","a"," ","A","z","u","r"," ">> \o <<Rupee>> \o <<" ","2",".","3"," ","-"," ","3",".","6"," ","C","r"," ","R","e","a","d","y"," ","t","o"," ","m","o","v","e"," ","3",","," ","4"," ","B","H","K">>) >>,
    size |-> 3000,
    raw |-> <<>> ]
PageTwo ==
  [ anchors |->
      << Anchor(<<"h","t","t","p","s",":","/","/","w","w","w",".","9","9","a","c","r","e","s",".","c","o","m">> \o PrestigePark \o <<"?","s","r","c","=","p","a","g","e","2">>, <<"P","r","e","s","t","i","g","e"," ","P","a","r","k">>,
                <<Rupee>> \o <<" ","8","0"," ","L"," ","-"," ","2",".","5"," ","C","r">>),
         Anchor(<<"/","s","o","b","h","a","-","c","i","t","y","-","h","e","b","b","a","l","-","b","a","n","g","a","l","o","r","e","-","n","o","r","t","h","-","n","p","x","i","d","-","r","7">>, <<"S","o","b","h","a"," ","C","i","t","y">>,
                <<"H","e","b","b","a","l",","," ","B","a","n","g","a","l","o","r","e"," ","N","o","r","t","h"," ","4","5"," ","L","a","c"," ","o","n","w","a","r","d","s"," ","P","o","s","s","e","s","s","i","o","n"," ","b","y"," ","D","e","c"," ","2","0","3","0">>),
         Anchor(PrestigePark \o <<" ">>, <<"P","r","e","s","t","i","g","e"," ","P","a","r","k">>, <<Rupee>> \o <<" ","9","0"," ","L"," ","-"," ","3"," ","C","r">>) >>,
    size |-> 2500,
    raw |-> <<>> ]
\* a project link that leads to another host
Mirrored == <<"h","t","t","p","s",":","/","/","m","i","r","r","o","r",".","e","x","a","m","p","l","e",".","c","o","m","/","b","r","i","g","a","d","e","-","o","a","s","i","s","-","d","e","v","a","n","a","h","a","l","l","i","-","b","a","n","g","a","l","o","r","e","-","n","o","r","t","h","-","n","p","x","i","d","-","r","9">>
PageSparse ==
  [ anchors |-> << Anchor(LodhaAzur, <<"L","o","d","h","a"," ","A","z","u","r">>, <<"P","r","i","c","e"," ","o","n"," ","r","e","q","u","e","s","t">>),
                   Anchor(Mirrored, <<"B","r","i","g","a","d","e"," ","O","a","s","i","s">>, <<Rupee>> \o <<" ","6","0"," ","L"," ","-"," ","9","0"," ","L">>) >>,
    size |-> 6000,
    raw |->
      << [group1 |-> PyNone, group2 |-> PyStr(LodhaAzur),
          window_text |-> <<" ">> \o LodhaAzur \o <<" ","L","o","d","h","a"," ","A","z","u","r"," ","1",".","5"," ","-"," ","2"," ","C","r"," ">>],
         [group1 |-> PyNone, group2 |-> PyStr(<<"/","g","o","d","r","e","j","-","w","o","o","d","s","-","d","e","v","a","n","a","h","a","l","l","i","-","b","a","n","g","a","l","o","r","e","-","n","o","r","t","h","-","n","p","x","i","d","-","r","5">>),
          window_text |-> <<" ","/","g","o","d","r","e","j","-","w","o","o","d","s","-","d","e","v","a","n","a","h","a","l","l","i","-","b","a","n","g","a","l","o","r","e","-","n","o","r","t","h","-","n","p","x","i","d","-","r","5"," ","P","o","s","s","e","s","s","i","o","n",":"," ","J","a","n"," ","2","0","3","1"," ","3"," ","B","H","K"," ">>],
         [group1 |-> PyStr(<<"h","t","t","p","s",":","/","/","w","w","w",".","9","9","a","c","r","e","s",".","c","o","m","/","g","o","d","r","e","j","-","w","o","o","d","s","-","d","e","v","a","n","a","h","a","l","l","i","-","b","a","n","g","a","l","o","r","e","-","n","o","r","t","h","-","n","p","x","i","d","-","r","5">>),
          group2 |-> PyNone,
          window_text |-> <<" ","h","t","t","p","s",":","/","/","w","w","w",".","9","9","a","c","r","e","s",".","c","o","m","/","g","o","d","r","e","j","-","w","o","o","d","s","-","d","e","v","a","n","a","h","a","l","l","i","-","b","a","n","g","a","l","o","r","e","-","n","o","r","t","h","-","n","p","x","i","d","-","r","5"," ">>] >> ]
PageEmpty == [ anchors |-> <<>>, size |-> 1200, raw |-> <<>> ]
\* a page whose only anchor is a project link without text
PageSort ==
  [ anchors |-> << Anchor(<<"/","a","b","-","s","o","r","t","-","l","i","s","t","-","b","y","-","w","h","i","t","e","f","i","e","l","d","-","b","a","n","g","a","l","o","r","e","-","e","a","s","t","-","n","p","x","i","d","-","r","1">>, <<>>, <<Rupee," ","7","1"," ","L"," ","-"," ","2",".","1","1"," ","C","r">>) >>,
    size |-> 1500,
    raw |-> <<>> ]
Suncrest == <<"/","p","r","e","s","t","i","g","e","-","s","u","n","c","r","e","s","t","-","e","l","e","c","t","r","o","n","i","c","-","c","i","t","y","-","b","a","n","g","a","l","o","r","e","-","s","o","u","t","h","-","n","p","x","i","d","-","r","4","3","9","8","9","5">>
PageSuncrest ==
  [ anchors |-> << Anchor(Suncrest, <<"P","r","e","s","t","i","g","e"," ","S","u","n","c","r","e","s","t">>, <<Rupee," ","7","1"," ","L"," ","-"," ","2",".","1","1"," ","C","r"," ",".",".","."," ","P","o","s","s","e","s","s","i","o","n",":"," ","S","e","p"," ","2","0","2","8"," ",".",".","."," ","1",","," ","2",","," ","3"," ","B","H","K">>) >>,
    size |-> 2000,
    raw |-> <<>> ]
Feeds ==
  { <<Html(PageOne)>>,
    <<Html(PageOne), Html(PageTwo), Html(PageSparse)>>,
    <<PyNone, Html(PageTwo)>>,
    <<Html(PageSparse), Html(PageEmpty), Html(PageTwo)>>,
    <<Html(PageSort), Html(PageSuncrest)>> }
\* a category that serves nothing on its first page
QuietFeed == <<PyNone, Html(PageTwo)>>
\* the webs of the runs: every feed for the first category; of the two categories
\* behind it at most one serves a first page
Sites ==
  { s \in [1..Len(SOURCE_URLS) -> Feeds] :
      \/ s[2] = QuietFeed /\ s[3] \in {QuietFeed, <<Html(PageOne)>>}
      \/ s[2] = <<Html(PageOne), Html(PageTwo), Html(PageSparse)>> /\ s[3] = QuietFeed }

\* fetch(url) for page p of category c
Fetched(c, p) == IF p <= Len(site[c]) THEN site[c][p] ELSE PyNone
\* base_url + f"-page-{page}"
PageUrl(c, p) == IF p = 1 THEN SOURCE_URLS[c].url ELSE SOURCE_URLS[c].url \o <<"-","p","a","g","e","-">> \o Digits(p)
\* what a fetched page adds: nothing when the fetch gave up
PageItems(html, c, p) ==
  IF IsNone(html) THEN <<>> ELSE scrape_99acres_list(html[2], PageUrl(c, p), SOURCE_URLS[c].status)

\* lines 1107-1187
SAMPLE_DATA ==
  << [ id |-> PyStr(<<"s","a","m","p","l","e","1">>), source |-> PyStr(<<"9","9","a","c","r","e","s">>), status |-> PyStr(<<"n","e","w","_","l","a","u","n","c","h">>),
       name |-> PyStr(<<"F","o","l","i","u","m"," ","b","y"," ","S","u","m","a","d","h","u","r","a"," ","P","h","a","s","e"," ","3">>), builder |-> PyStr(<<"S","u","m","a","d","h","u","r","a">>),
       locality |-> PyStr(<<"W","h","i","t","e","f","i","e","l","d",","," ","B","a","n","g","a","l","o","r","e"," ","E","a","s","t">>),
       price_min_lakhs |-> PyNum(23000), price_max_lakhs |-> PyNum(37200),
       price_display |-> PyStr(<<Rupee>> \o <<" ","2",".","3","0"," ","-"," ","3",".","7","2"," ","C","r">>),
       handover |-> PyStr(<<"D","e","c"," ","2","0","2","6">>), handover_year |-> PyNum(2026), bhk |-> PyStr(<<"3",","," ","4">>),
       url |-> PyStr(<<"h","t","t","p","s",":","/","/","w","w","w",".","9","9","a","c","r","e","s",".","c","o","m","/","f","o","l","i","u","m","-","b","y","-","s","u","m","a","d","h","u","r","a","-","p","h","a","s","e","-","3","-","w","h","i","t","e","f","i","e","l","d","-","b","a","n","g","a","l","o","r","e","-","e","a","s","t","-","n","p","x","i","d","-","r","4","2","0","6","6","6">>) ],
     BaseRecord,
     [ id |-> PyStr(<<"s","a","m","p","l","e","3">>), source |-> PyStr(<<"9","9","a","c","r","e","s">>), status |-> PyStr(<<"r","e","a","d","y","_","t","o","_","m","o","v","e">>),
       name |-> PyStr(<<"B","r","i","g","a","d","e"," ","E","l"," ","D","o","r","a","d","o">>), builder |-> PyStr(<<"B","r","i","g","a","d","e">>),
       locality |-> PyStr(<<"B","a","g","a","l","u","r",","," ","B","a","n","g","a","l","o","r","e"," ","N","o","r","t","h">>),
       price_min_lakhs |-> PyNum(4900), price_max_lakhs |-> PyNum(17700),
       price_display |-> PyStr(<<Rupee>> \o <<" ","4","9"," ","L"," ","-"," ","1",".","7","7"," ","C","r">>),
       handover |-> PyStr(<<"R","e","a","d","y"," ","t","o"," ","m","o","v","e">>), handover_year |-> PyNone, bhk |-> PyStr(<<"1",","," ","2",","," ","3">>),
       url |-> PyStr(<<"h","t","t","p","s",":","/","/","w","w","w",".","9","9","a","c","r","e","s",".","c","o","m","/","b","r","i","g","a","d","e","-","e","l","-","d","o","r","a","d","o","-","b","a","g","a","l","u","r","-","b","a","n","g","a","l","o","r","e","-","n","o","r","t","h","-","n","p","x","i","d","-","r","3","3","1","1","3","3">>) ],
     [ id |-> PyStr(<<"s","a","m","p","l","e","4">>), source |-> PyStr(<<"9","9","a","c","r","e","s">>), status |-> PyStr(<<"n","e","w","_","l","a","u","n","c","h">>),
       name |-> PyStr(<<"S","a","r","a","n","g"," ","b","y"," ","S","u","m","a","d","h","u","r","a">>), builder |-> PyStr(<<"S","u","m","a","d","h","u","r","a">>),
       locality |-> PyStr(<<"W","h","i","t","e","f","i","e","l","d",","," ","B","a","n","g","a","l","o","r","e"," ","E","a","s","t">>),
       price_min_lakhs |-> PyNum(17300), price_max_lakhs |-> PyNum(27500),
       price_display |-> PyStr(<<Rupee>> \o <<" ","1",".","7","3"," ","-"," ","2",".","7","5"," ","C","r">>),
       handover |-> PyStr(<<"D","e","c"," ","2","0","2","6">>), handover_year |-> PyNum(2026), bhk |-> PyStr(<<"3",","," ","4">>),
       url |-> PyStr(<<"h","t","t","p","s",":","/","/","w","w","w",".","9","9","a","c","r","e","s",".","c","o","m","/","s","a","r","a","n","g","-","b","y","-","s","u","m","a","d","h","u","r","a","-","w","h","i","t","e","f","i","e","l","d","-","b","a","n","g","a","l","o","r","e","-","e","a","s","t","-","n","p","x","i","d","-","r","4","1","1","4","2","5">>) ],
     [ id |-> PyStr(<<"s","a","m","p","l","e","5">>), source |-> PyStr(<<"9","9","a","c","r","e","s">>), status |-> PyStr(<<"u","n","d","e","r","_","c","o","n","s","t","r","u","c","t","i","o","n">>),
       name |-> PyStr(<<"L","o","d","h","a"," ","A","z","u","r">>), builder |-> PyStr(<<"L","o","d","h","a">>),
       locality |-> PyStr(<<"B","a","n","n","e","r","g","h","a","t","t","a"," ","R","o","a","d",","," ","B","a","n","g","a","l","o","r","e"," ","S","o","u","t","h">>),
       price_min_lakhs |-> PyNum(23000), price_max_lakhs |-> PyNum(36000),
       price_display |-> PyStr(<<Rupee>> \o <<" ","2",".","3"," ","-"," ","3",".","6"," ","C","r">>),
       handover |-> PyStr(<<"A","p","r"," ","2","0","2","8">>), handover_year |-> PyNum(2028), bhk |-> PyStr(<<"3",","," ","4">>),
       url |-> PyStr(<<"h","t","t","p","s",":","/","/","w","w","w",".","9","9","a","c","r","e","s",".","c","o","m","/","l","o","d","h","a","-","a","z","u","r","-","b","a","n","n","e","r","g","h","a","t","t","a","-","r","o","a","d","-","b","a","n","g","a","l","o","r","e","-","s","o","u","t","h","-","n","p","x","i","d","-","r","4","2","4","4","6","2">>) ] >>
ensure_sample_data(properties) == IF properties # <<>> THEN properties ELSE SAMPLE_DATA

\* [p for p in (verify_and_clean_property(p) for p in rs) if p is not None]
VerifyAll(rs) ==
  LET kept == SelectSeq([i \in 1..Len(rs) |-> verify_and_clean_property(rs[i])],
                        LAMBDA v : ~IsNone(v))
  IN [i \in 1..Len(kept) |-> kept[i][2]]
\* line 1041
DropJunk(rs) == SelectSeq(rs, LAMBDA p : ~_is_junk_project_name(strip(OrEmpty(p.name))))

\* the NoBroker listing as the site serves it, page 1 first
NbFeeds == { <<>>, <<Html(NbListing)>> }
NbFetched(p) == IF p <= Len(nb_site) THEN nb_site[p] ELSE PyNone
NbItems(html) == IF IsNone(html) THEN <<>> ELSE scrape_nobroker_list(html[2], <<"h","t","t","p","s",":","/","/","w","w","w",".","n","o","b","r","o","k","e","r",".","i","n">>)
\* lines 1016-1031: the pagination loop from page p on
RECURSIVE NbPages(_)
NbPages(p) ==
  IF p > max_pages \/ NbItems(NbFetched(p)) = <<>> THEN <<>>
  ELSE NbItems(NbFetched(p)) \o NbPages(p + 1)

\* a request for page p of category c (0 for NoBroker) made with n records collected
Asked(c, p, n) == [c |-> c, p |-> p, at |-> n]
\* the requests of the loop of lines 1016-1031 from page p on
RECURSIVE NbAsked(_, _)
NbAsked(p, n) ==
  IF p > max_pages THEN <<>>
  ELSE <<Asked(0, p, n)>>
       \o (IF NbItems(NbFetched(p)) = <<>> THEN <<>>
           ELSE NbAsked(p + 1, n + Len(NbItems(NbFetched(p)))))

\* what the fetch of a detail page gives when nothing goes wrong: the page the site
\* has for the url, None for every other url
DetailPage(url) ==
  CASE url = PyStr(<<"h","t","t","p","s",":","/","/","w","w","w",".","9","9","a","c","r","e","s",".","c","o","m">> \o PrestigePark) -> Html(ParkDetail)
    [] url = PyStr(<<"h","t","t","p","s",":","/","/","w","w","w",".","9","9","a","c","r","e","s",".","c","o","m","/","s","o","b","h","a","-","c","i","t","y","-","h","e","b","b","a","l","-","b","a","n","g","a","l","o","r","e","-","n","o","r","t","h","-","n","p","x","i","d","-","r","7">>) -> Html(SobhaDetail)
    [] url = PyStr(<<"h","t","t","p","s",":","/","/","w","w","w",".","9","9","a","c","r","e","s",".","c","o","m">> \o LodhaAzur) -> Html(AzurDetail)
    [] url = PyStr(<<"h","t","t","p","s",":","/","/","w","w","w",".","9","9","a","c","r","e","s",".","c","o","m">> \o Suncrest) -> Html(SuncrestDetail)
    [] url = PyStr(<<"h","t","t","p","s",":","/","/","w","w","w",".","n","o","b","r","o","k","e","r",".","i","n","/","a","d","a","r","s","h","-","w","e","l","k","i","n","-","p","a","r","k","-","s","a","r","j","a","p","u","r","-","r","o","a","d","-","b","a","n","g","a","l","o","r","e">>) -> Html(WelkinDetail)
    [] url = PyStr(<<"h","t","t","p","s",":","/","/","w","w","w",".","n","o","b","r","o","k","e","r",".","i","n","/","p","r","e","s","t","i","g","e","-","l","a","k","e","s","i","d","e","-","h","a","b","i","t","a","t","-","v","a","r","t","h","u","r","-","b","a","n","g","a","l","o","r","e">>) -> Html(LakesideDetail)
    [] url = PyStr(Mirrored) -> Html(SobhaDetail)
    [] OTHER -> PyNone
\* an enrichment that raises instead of returning
Raised == <<"raised">>
\* the most enrichments of one run that raise
MaxFailed == 1
Failures(log) == Cardinality({ k \in 1..Len(log) : log[k].html = Raised })
\* lines 174-193 and 1061-1064: the fetch gives the page, or None when the request
\* fails; the enrichment may also raise
Outcomes(record, log) ==
  {DetailPage(record.url)} \cup (IF Failures(log) < MaxFailed THEN {Raised} ELSE {})
\* lines 1052 and 1083: the places in the list of the records of one source
OfSource(rs, source) ==
  SelectSeq([i \in 1..Len(rs) |-> i], LAMBDA i : strip(OrEmpty(rs[i].source)) = source)
\* a loop that an exception ends
NextIndexAborting(html, i, n) == IF html = Raised THEN n + 1 ELSE i + 1
\* lines 1057-1067 and 1088-1099: the loop goes on to the next record, also after an
\* exception
NextIndex(html, i, n) == i + 1

(***************************************************************************)
(* The raw-text extractor on its own: a document of a few urls, one of     *)
(* them put together from a prefix, a city token and an identifier marker  *)
(***************************************************************************)
MaxOthers == 1
RawPrefixes == { <<"h","t","t","p","s",":","/","/","w","w","w",".","9","9","a","c","r","e","s",".","c","o","m","/">>, <<"/">>, <<"/","p","r","o","j","e","c","t","s","/">> }
RawCities == { <<"-","b","a","n","g","a","l","o","r","e">>, <<"-","B","A","N","G","A","L","O","R","E">>, <<"-","B","a","n","g","a","l","o","r","e">>, <<"-","m","u","m","b","a","i">> }
RawMarkers == { <<"-","n","p","x","i","d","-","r","5">>, <<"-","N","P","X","I","D","-","r","5">>, <<"-","N","p","x","I","d","-","r","5">>, <<"-","r","5">> }
OtherRuns ==
  { <<"/","s","o","b","h","a","-","c","i","t","y","-","h","e","b","b","a","l","-","b","a","n","g","a","l","o","r","e","-","n","o","r","t","h","-","n","p","x","i","d","-","r","7">>,
    <<"h","t","t","p","s",":","/","/","w","w","w",".","9","9","a","c","r","e","s",".","c","o","m","/","s","o","b","h","a","-","c","i","t","y","-","h","e","b","b","a","l","-","b","a","n","g","a","l","o","r","e","-","n","o","r","t","h","-","n","p","x","i","d","-","r","7","?","s","r","c","=","1">> }
RawInputs ==
  [ run : [prefix : RawPrefixes, city : RawCities, marker : RawMarkers],
    others : UNION { [1..n -> OtherRuns] : n \in 0..MaxOthers },
    first : BOOLEAN ]
\* the url under study as it stands in the document
RunOf(p) == p.prefix \o <<"g","o","d","r","e","j","-","w","o","o","d","s","-","d","e","v","a","n","a","h","a","l","l","i">> \o p.city \o <<"-","n","o","r","t","h">> \o p.marker
Runs(d) == IF d.first THEN <<RunOf(d.run)>> \o d.others ELSE d.others \o <<RunOf(d.run)>>
\* the document as the extractor sees it
RawDoc(d) == [anchors |-> <<>>, size |-> Len(Spaced(Runs(d))), raw |-> Finditer(Runs(d), Spaced(Runs(d)))]
RawInit == tin \in RawInputs /\ tout = <<>> /\ tpc = "in"
RawIdle ==
  /\ tin = [run |-> [prefix |-> <<>>, city |-> <<>>, marker |-> <<>>], others |-> <<>>, first |-> TRUE]
  /\ tout = <<>>
  /\ tpc = "idle"
ExtractRaw ==
  /\ tpc = "in"
  /\ tout' = _extract_from_raw_html(RawDoc(tin), SOURCE_URLS[1].url, SOURCE_URLS[1].status)
  /\ tpc' = "done"
  /\ UNCHANGED tin

\* the url has the identifier marker and the city token, in whatever case
HasBothTokens(p) == p.city # <<"-","m","u","m","b","a","i">> /\ p.marker # <<"-","r","5">>
\* the url of the record it stands for
ListingUrl(p) ==
  (IF p.prefix[1] = "/" THEN <<"h","t","t","p","s",":","/","/","w","w","w",".","9","9","a","c","r","e","s",".","c","o","m">> ELSE <<>>) \o RunOf(p)
\* C25 as stated: a fully-qualified or root-relative listing url in the raw text gives a
\* record when it has the marker and the city token, in lower, upper or mixed case,
\* and gives none when it lacks either.
C25_AnyCaseRecognised ==
  tpc = "done" =>
    (HasBothTokens(tin.run) <=> \E k \in 1..Len(tout) : tout[k].url = PyStr(ListingUrl(tin.run)))

(***************************************************************************)
(* scrape_99acres_list on its own: a page of a few project links, of 5000  *)
(* characters or of 5001, with a few project urls in its raw text          *)
(***************************************************************************)
MaxAnchors == 3
GodrejWoods == <<"/","g","o","d","r","e","j","-","w","o","o","d","s","-","d","e","v","a","n","a","h","a","l","l","i","-","b","a","n","g","a","l","o","r","e","-","n","o","r","t","h","-","n","p","x","i","d","-","r","5">>
\* two links to Prestige Park that differ in the href, one to Lodha Azur, one to Sobha City
ListAnchors == << PageOne.anchors[1], PageTwo.anchors[1], PageOne.anchors[4], PageTwo.anchors[2] >>
\* the links of a page: up to MaxAnchors of them, each any number of times
ListLinks ==
  { [i \in DOMAIN f |-> ListAnchors[f[i]]] :
      f \in { g \in UNION { [1..n -> 1..Len(ListAnchors)] : n \in 0..MaxAnchors } :
                \A i, j \in DOMAIN g : i < j => g[i] <= g[j] } }
\* the urls in the raw text: none, one the links do not have, one of a link and a new
\* one, the new one twice
ListRuns ==
  { <<>>, <<GodrejWoods>>, <<LodhaAzur, GodrejWoods>>,
    <<GodrejWoods, <<"h","t","t","p","s",":","/","/","w","w","w",".","9","9","a","c","r","e","s",".","c","o","m">> \o GodrejWoods \o <<"?","s","r","c","=","1">>>> }
\* url_pattern.finditer on each of them
ListMatches == { Finditer(runs, Spaced(runs)) : runs \in ListRuns }
ListPage(anchors, size, raw) == [anchors |-> anchors, size |-> size, raw |-> raw]
ListInputs ==
  { ListPage(anchors, size, raw) :
      anchors \in ListLinks,
      size \in {5000, 5001}, raw \in ListMatches }
ListInit == lin \in ListInputs /\ lfound = <<>> /\ lout = <<>> /\ lpc = "in"
ListIdle == lin = ListPage(<<>>, 0, <<>>) /\ lfound = <<>> /\ lout = <<>> /\ lpc = "idle"
\* the call; lfound keeps what the loop over the anchors had found (unique at line 601)
ScrapeList ==
  /\ lpc = "in"
  /\ lfound' = KeepFirst(ScrapeAnchors(lin.anchors, 1, SOURCE_URLS[1].url, SOURCE_URLS[1].status, <<>>))
  /\ lout' = WithFallback(lfound', lin, SOURCE_URLS[1].url, SOURCE_URLS[1].status)
  /\ lpc' = "done"
  /\ UNCHANGED lin

\* what the raw-text extractor returns for the page
FromRawText == _extract_from_raw_html(lin, SOURCE_URLS[1].url, SOURCE_URLS[1].status)
FoundUrl(url) == \E i \in 1..Len(lfound) : lfound[i].url = url
\* the condition of C24 and the records the call added to those of the anchors
FewAndLong == Len(lfound) < 3 /\ lin.size > 5000
Appended == SubSeq(lout, Len(lfound) + 1, Len(lout))
\* the records added are records of raw with a url no anchor gave; all such records of
\* raw are added when the condition holds, none otherwise
AddedFrom(raw, added) ==
  /\ \A k \in 1..Len(added) :
       /\ \E j \in 1..Len(raw) : added[k] = raw[j]
       /\ ~FoundUrl(added[k].url)
  /\ IF FewAndLong
     THEN \A j \in 1..Len(raw) : FoundUrl(raw[j].url) \/ \E k \in 1..Len(added) : added[k] = raw[j]
     ELSE added = <<>>
\* C24: the records of the anchors are kept as they are, ahead of all others; a record
\* is added only if the raw-text extractor returned it and no record of the anchors has
\* its url; and the raw-text extractor's records are added if and only if the anchors
\* gave fewer than 3 records of distinct urls and the page has more than 5000 characters.
C24_FallbackWhenFewAndLong ==
  lpc = "done" =>
    /\ Len(lout) >= Len(lfound)
    /\ SubSeq(lout, 1, Len(lfound)) = lfound
    /\ \E raw \in {FromRawText} : AddedFrom(raw, Appended)
\* two links of one url and a third link, on a page of 5001 characters whose raw text
\* holds the url of a link and a new one: the new one is added after the two records
C24_Witness ==
  /\ lpc = "done"
  /\ Len(lin.anchors) = 3
  /\ Len(lfound) = 2
  /\ lin.size = 5001
  /\ Len(lout) = 3
  /\ \E raw \in {FromRawText} : Len(raw) = 2 /\ FoundUrl(raw[1].url) /\ lout[3] = raw[2]

PipelineInit ==
  /\ site \in Sites
  /\ nb_site \in NbFeeds
  /\ max_pages \in {1, MaxPages}   \* first pages only, or up to MaxPages pages
  /\ do_skip_enrich \in BOOLEAN
  /\ rpc = "listing"
  /\ cat = 1
  /\ page = 2
  /\ all_properties = <<>>
  /\ requested = <<>>
  /\ unique = <<>>
  /\ listed = <<>>
  /\ ei = 1
  /\ enriched = <<>>
  /\ data = <<>>
PipelineIdle ==
  /\ site = [c \in 1..Len(SOURCE_URLS) |-> <<>>]
  /\ nb_site = <<>>
  /\ max_pages = 1
  /\ do_skip_enrich = TRUE
  /\ rpc = "idle"
  /\ cat = 1
  /\ page = 2
  /\ all_properties = <<>>
  /\ requested = <<>>
  /\ unique = <<>>
  /\ listed = <<>>
  /\ ei = 1
  /\ enriched = <<>>
  /\ data = <<>>

\* lines 980-987: the first page of one category
ScrapeListing ==
  /\ rpc = "listing"
  /\ all_properties' = all_properties \o PageItems(Fetched(cat, 1), cat, 1)
  /\ requested' = Append(requested, Asked(cat, 1, Len(all_properties)))
  /\ IF cat < Len(SOURCE_URLS)
     THEN cat' = cat + 1 /\ rpc' = rpc
     ELSE cat' = 1 /\ rpc' = "pages"
  /\ UNCHANGED <<site, nb_site, max_pages, do_skip_enrich, page, unique, listed, ei, enriched, data>>
\* lines 989-1005: one turn of the pagination loop of one category; the loop ends past
\* max_pages, on a fetch that gave up and on a page without items
ScrapePage ==
  /\ rpc = "pages"
  /\ requested' = IF page <= max_pages
                  THEN Append(requested, Asked(cat, page, Len(all_properties))) ELSE requested
  /\ \E items \in { IF page <= max_pages THEN PageItems(Fetched(cat, page), cat, page) ELSE <<>> } :
       IF items # <<>>
       THEN /\ all_properties' = all_properties \o items
            /\ page' = page + 1
            /\ UNCHANGED <<cat, rpc>>
       ELSE /\ page' = 2
            /\ IF cat < Len(SOURCE_URLS)
               THEN cat' = cat + 1 /\ rpc' = rpc
               ELSE cat' = 1 /\ rpc' = "nobroker"
            /\ UNCHANGED all_properties
  /\ UNCHANGED <<site, nb_site, max_pages, do_skip_enrich, unique, listed, ei, enriched, data>>
\* lines 1007-1031: the NoBroker listing and its further pages
ScrapeNoBroker ==
  /\ rpc = "nobroker"
  /\ all_properties' = all_properties \o NbItems(NbFetched(1)) \o NbPages(2)
  /\ requested' = Append(requested, Asked(0, 1, Len(all_properties)))
                    \o NbAsked(2, Len(all_properties) + Len(NbItems(NbFetched(1))))
  /\ rpc' = "merge"
  /\ UNCHANGED <<site, nb_site, max_pages, do_skip_enrich, cat, page, unique, listed, ei, enriched, data>>
\* lines 1033-1050 and 1104: deduplicate by url, drop junk names, verify; with
\* do_skip_enrich the list is returned as it is
Deduplicate ==
  /\ rpc = "merge"
  /\ unique' = VerifyAll(DropJunk(KeepFirst(all_properties)))
  /\ listed' = unique'
  /\ rpc' = IF do_skip_enrich THEN "returned" ELSE "enrich99"
  /\ UNCHANGED <<site, nb_site, max_pages, do_skip_enrich, cat, page, all_properties, ei, enriched, data, requested>>
\* lines 1057-1067: one turn of the loop over the 99acres records; the record is
\* overlaid in place unless the enrichment raises
Enrich99 ==
  /\ rpc = "enrich99"
  /\ ei <= Len(OfSource(unique, <<"9","9","a","c","r","e","s">>))
  /\ \E html \in Outcomes(unique[OfSource(unique, <<"9","9","a","c","r","e","s">>)[ei]], enriched) :
       /\ unique' = [unique EXCEPT ![OfSource(unique, <<"9","9","a","c","r","e","s">>)[ei]] =
                       IF html = Raised THEN @ ELSE Enriched99(@, html)]
       /\ enriched' = Append(enriched, [i |-> OfSource(unique, <<"9","9","a","c","r","e","s">>)[ei], html |-> html])
       /\ ei' = NextIndex(html, ei, Len(OfSource(unique, <<"9","9","a","c","r","e","s">>)))
  /\ UNCHANGED <<site, nb_site, max_pages, do_skip_enrich, rpc, cat, page, all_properties, listed, data, requested>>
\* lines 1053 and 1069-1080: after the loop the verified list is saved, when there were
\* 99acres records and the verified list is not empty
Checkpoint ==
  /\ rpc = "enrich99"
  /\ ei > Len(OfSource(unique, <<"9","9","a","c","r","e","s">>))
  /\ \E checkpoint \in {VerifyAll(unique)} :
       data' = IF OfSource(unique, <<"9","9","a","c","r","e","s">>) # <<>> /\ checkpoint # <<>>
               THEN checkpoint ELSE data
  /\ rpc' = "enrichnb"
  /\ ei' = 1
  /\ UNCHANGED <<site, nb_site, max_pages, do_skip_enrich, cat, page, all_properties, unique, listed, enriched, requested>>
\* lines 1088-1099: one turn of the loop over the NoBroker records
EnrichNoBroker ==
  /\ rpc = "enrichnb"
  /\ ei <= Len(OfSource(unique, <<"n","o","b","r","o","k","e","r">>))
  /\ \E html \in Outcomes(unique[OfSource(unique, <<"n","o","b","r","o","k","e","r">>)[ei]], enriched) :
       /\ unique' = [unique EXCEPT ![OfSource(unique, <<"n","o","b","r","o","k","e","r">>)[ei]] =
                       IF html = Raised THEN @ ELSE EnrichedNb(@, html)]
       /\ enriched' = Append(enriched, [i |-> OfSource(unique, <<"n","o","b","r","o","k","e","r">>)[ei], html |-> html])
       /\ ei' = NextIndex(html, ei, Len(OfSource(unique, <<"n","o","b","r","o","k","e","r">>)))
  /\ UNCHANGED <<site, nb_site, max_pages, do_skip_enrich, rpc, cat, page, all_properties, listed, data, requested>>
\* line 1104, after the enrichment
Return ==
  /\ rpc = "enrichnb"
  /\ ei > Len(OfSource(unique, <<"n","o","b","r","o","k","e","r">>))
  /\ rpc' = "returned"
  /\ UNCHANGED <<site, nb_site, max_pages, do_skip_enrich, cat, page, all_properties, unique, listed, ei, enriched, data, requested>>
\* lines 1219-1227: what main writes to OUTPUT_JSON
Written(verified) == IF verified = <<>> THEN ensure_sample_data(<<>>) ELSE verified
main ==
  /\ rpc = "returned"
  /\ data' = Written(VerifyAll(ensure_sample_data(unique)))
  /\ rpc' = "written"
  /\ UNCHANGED <<site, nb_site, max_pages, do_skip_enrich, cat, page, all_properties, requested, unique,
               listed, ei, enriched>>

(***************************************************************************)
(* Properties of the pipeline (Spec)                                       *)
(***************************************************************************)
\* C1 as stated, for run_scraper: in the list it returns all urls are pairwise distinct
\* (one record per url, the first that arrived).
C1_ReturnedUrlsDistinct ==
  rpc \in {"returned", "written"} =>
    \A i, j \in 1..Len(unique) : i # j => unique[i].url # unique[j].url

\* C11 as stated: in every record written to the output, after extraction, the overlay of
\* the detail page where there is one, and verification, handover_year is null whenever
\* handover is "Ready to move".
C11_ReadyHasNoYear ==
  \A i \in 1..Len(data) :
    data[i].handover = PyStr(<<"R","e","a","d","y"," ","t","o"," ","m","o","v","e">>) => IsNone(data[i].handover_year)

\* the records the pipeline has produced: those of the extractors and those the Verifier
\* returned
Produced == all_properties \o unique
\* C12 as stated: two records of the pipeline with the same url carry the same id,
\* whichever stage assigned it (the anchor extractor, the raw-text extractor, the Verifier).
C12_IdFunctionOfUrl ==
  \A i, j \in 1..Len(Produced) :
    Produced[i].url = Produced[j].url => Produced[i].id = Produced[j].id

\* the scenario of C15: the page with the one Prestige Suncrest anchor has been scraped
SuncrestScraped ==
  /\ rpc \in {"returned", "written"}
  /\ max_pages >= 2
  /\ \E c \in 1..Len(SOURCE_URLS) : site[c] = <<Html(PageSort), Html(PageSuncrest)>>
\* its records in the deduplicated, verified list, before any detail page is overlaid
FromSuncrest ==
  SelectSeq(listed, LAMBDA r : r.url = PyStr(<<"h","t","t","p","s",":","/","/","w","w","w",".","9","9","a","c","r","e","s",".","c","o","m">> \o Suncrest))
\* C15 as stated: the document with the one Prestige Suncrest anchor yields, after
\* extraction and verification, exactly one record, named from the slug "Prestige
\* Suncrest...", with prices 71 and 211 lakhs, handover "Sep 2028", handover_year 2028
\* and bhk "1,2,3".
C15_SuncrestEndToEnd ==
  SuncrestScraped =>
    /\ Len(FromSuncrest) = 1
    /\ startswith(FromSuncrest[1].name[2], <<"P","r","e","s","t","i","g","e"," ","S","u","n","c","r","e","s","t">>)
    /\ FromSuncrest[1].price_min_lakhs = PyNum(71 * Scale)
    /\ FromSuncrest[1].price_max_lakhs = PyNum(211 * Scale)
    /\ FromSuncrest[1].handover = PyStr(<<"S","e","p"," ","2","0","2","8">>)
    /\ FromSuncrest[1].handover_year = PyNum(2028)
    /\ FromSuncrest[1].bhk = PyStr(<<"1",",","2",",","3">>)

\* the records that are verified before a write: the returned list, or the placeholders
\* when it is empty, in main
ToPersist == IF rpc = "returned" THEN ensure_sample_data(unique) ELSE unique
\* C16 as stated: whenever the output file is written, every record written is a value
\* verify_and_clean_property returned for a record of the list in hand, also when all
\* scraped records are rejected and the placeholders are substituted.
C16_VerifyThenPersist ==
  [][ data' # data =>
        \A i \in 1..Len(data') :
          \E j \in 1..Len(ToPersist) :
            verify_and_clean_property(ToPersist[j]) = <<"dict", data'[i]>> ]_vars

\* the record the k-th enrichment worked on, before and after it (a record is enriched
\* once, so it is as listed before and as it stands in unique after)
Before(k) == listed[enriched[k].i]
After(k) == unique[enriched[k].i]
\* what the detail parser of the record's source returns for the page
ParsedFor(record, html) ==
  IF strip(OrEmpty(record.source)) = <<"9","9","a","c","r","e","s">>
  THEN _parse_99acres_detail_page(html, record.url[2])
  ELSE _parse_nobroker_detail_page(html)
DetailsOf(k) == ParsedFor(Before(k), enriched[k].html)
\* the url has the shape of a detail page of the record's source
IsDetailUrl(record) ==
  IF strip(OrEmpty(record.source)) = <<"9","9","a","c","r","e","s">> THEN IsProjectUrl99(record.url)
  ELSE IsProjectUrlNb(record.url)
IsEmptyValue(v) == IsNone(v) \/ (IsStr(v) /\ v[2] = <<>>)
\* after is before with values of details laid over it, none of them null or empty
OverlaidOnly(before, after, details) ==
  \A key \in DOMAIN after :
    /\ \/ after[key] = before[key]
       \/ key \in DOMAIN details /\ after[key] = details[key] /\ ~IsEmptyValue(after[key])
    /\ ~IsEmptyValue(before[key]) => ~IsEmptyValue(after[key])
\* the enrichment that made the step to the primed state
Step(e, before, after) ==
  /\ IF e.html = Raised THEN after = before
     ELSE \E details \in {ParsedFor(before, e.html)} : OverlaidOnly(before, after, details)
  /\ (IsNone(e.html) \/ ~IsDetailUrl(before)) => after = before
\* C17: the enrichment is an overlay that clears nothing: each field keeps its value or
\* takes a value of the detail parser that is neither null nor empty, no field that held
\* a value loses it, and without a detail page or a url of the source's detail-page shape
\* the record stays as it was.
C17_OverlayClearsNothing ==
  [][ enriched' # enriched =>
        \E e \in {enriched'[Len(enriched')]} : Step(e, unique[e.i], unique'[e.i]) ]_vars
\* a detail page has been overlaid: its handover replaced the listing's, while the
\* maximum price stayed as listed where the page gave none
C17_Witness ==
  \E k \in 1..Len(enriched) :
    /\ enriched[k].html = Html(ParkDetail)
    /\ IsNone(DetailsOf(k).price_max_lakhs)
    /\ After(k).price_max_lakhs = Before(k).price_max_lakhs
    /\ ~IsNone(After(k).price_max_lakhs)
    /\ After(k).handover = PyStr(<<"R","e","a","d","y"," ","t","o"," ","m","o","v","e">>)
    /\ Before(k).handover = PyStr(<<"S","e","p"," ","2","0","2","8">>)

\* run_scraper has returned from a run with --enrich
EnrichedRun == rpc \in {"returned", "written"} /\ ~do_skip_enrich
\* C18: an enrichment that fails, by a fetch that gives nothing or by an exception, does
\* not end the batch: every record of the 99acres list and then every record of the
\* NoBroker list is enriched exactly once, in list order; the list returned is the
\* whole deduplicated list, and the record whose enrichment failed is as it was listed.
C18_FailureDoesNotAbort ==
  EnrichedRun =>
    /\ [k \in 1..Len(enriched) |-> enriched[k].i]
         = OfSource(listed, <<"9","9","a","c","r","e","s">>) \o OfSource(listed, <<"n","o","b","r","o","k","e","r">>)
    /\ Len(unique) = Len(listed)
    /\ \A i \in 1..Len(unique) : unique[i].url = listed[i].url
    /\ \A k \in 1..Len(enriched) :
         (enriched[k].html = Raised \/ IsNone(enriched[k].html)) => After(k) = Before(k)
\* the enrichment of a 99acres record raised, and after it a 99acres record and a
\* NoBroker record were overlaid with their detail pages
C18_Witness ==
  /\ EnrichedRun
  /\ \E k, j, n \in 1..Len(enriched) :
       /\ k < j /\ j < n
       /\ enriched[k].html = Raised
       /\ Before(k).source = PyStr(<<"9","9","a","c","r","e","s">>)
       /\ Before(j).source = PyStr(<<"9","9","a","c","r","e","s">>)
       /\ enriched[j].html = Html(SobhaDetail)
       /\ After(j).handover = PyStr(<<"D","e","c"," ","2","0","3","0">>)
       /\ enriched[n].html = Html(WelkinDetail)
       /\ After(n).handover = PyStr(<<"F","e","b","r","u","a","r","y"," ","2","0","3","0">>)

\* the urls fetched from the listing pages of all sources
FetchedUrls == { all_properties[j].url : j \in 1..Len(all_properties) }
\* C26: once a detail page has been fetched for an enrichment, the listing phase is over
\* and its records are deduplicated by url (the list holds at most one record for each
\* url fetched); every record enriched is a record of that list, and the list loses
\* no record afterwards.
C26_DedupBeforeEnrich ==
  enriched # <<>> =>
    /\ rpc \in {"enrich99", "enrichnb", "returned", "written"}
    /\ Len(listed) <= Cardinality(FetchedUrls)
    /\ Len(unique) = Len(listed)
    /\ \A i \in 1..Len(unique) : unique[i].url = listed[i].url
    /\ \A k \in 1..Len(enriched) : enriched[k].i \in 1..Len(listed)
\* a url was fetched from two pages, and the one record kept for it was enriched
C26_Witness ==
  /\ rpc = "returned"
  /\ \E i, j \in 1..Len(all_properties) : i < j /\ all_properties[i].url = all_properties[j].url
  /\ \E k \in 1..Len(enriched) :
       /\ enriched[k].html = Html(ParkDetail)
       /\ After(k).url = all_properties[1].url
       /\ After(k) # Before(k)

\* the records the k-th request brought, and the urls collected before it
Brought(k) ==
  SubSeq(all_properties, requested[k].at + 1,
         IF k < Len(requested) THEN requested[k + 1].at ELSE Len(all_properties))
UrlsBefore(k) == { all_properties[i].url : i \in 1..requested[k].at }
\* the request stops its loop: the fetch failed or gave no record (both leave nothing
\* brought), or no record brought has a url that was not collected before
Stops(k) == \A i \in 1..Len(Brought(k)) : Brought(k)[i].url \in UrlsBefore(k)
\* the requests for further pages
Further == { k \in 1..Len(requested) : requested[k].p >= 2 }
\* C27: after page 1, pages 2, 3, ... of a category and of the NoBroker listing are
\* requested in order; the pagination ends at the first page whose fetch fails, that
\* yields zero records or that yields no record with a url not already collected; no
\* page above max_pages is requested
C27_PaginationStops ==
  rpc \notin {"listing", "pages", "nobroker"} =>
    \A k \in Further :
      /\ requested[k].p <= max_pages
      /\ requested[k].p > 2 =>
           /\ requested[k - 1].c = requested[k].c
           /\ requested[k - 1].p = requested[k].p - 1
           /\ ~Stops(k - 1)
      /\ (~Stops(k) /\ requested[k].p < max_pages) =>
           /\ k < Len(requested)
           /\ requested[k + 1].c = requested[k].c
           /\ requested[k + 1].p = requested[k].p + 1
\* the same with "a page that yields no record" as the only end besides max_pages
C27_Probe_StopsOnEmpty ==
  rpc \notin {"listing", "pages", "nobroker"} =>
    \A k \in Further :
      /\ requested[k].p <= max_pages
      /\ requested[k].p > 2 =>
           /\ requested[k - 1].c = requested[k].c
           /\ requested[k - 1].p = requested[k].p - 1
           /\ Brought(k - 1) # <<>>
      /\ (Brought(k) # <<>> /\ requested[k].p < max_pages) =>
           /\ k < Len(requested)
           /\ requested[k + 1].c = requested[k].c
           /\ requested[k + 1].p = requested[k].p + 1
\* a third page was requested after a second page that brought only known urls
C27_Probe_Witness ==
  \E k \in Further : requested[k].p = 3 /\ Stops(k - 1) /\ Brought(k - 1) # <<>>

\* the pages a detail fetch can give, of 99acres and of NoBroker
DetailPages99 ==
  { PyNone, Html(ParkDetail), Html(SobhaDetail), Html(AzurDetail), Html(SuncrestDetail) }
DetailPagesNb == { PyNone, Html(WelkinDetail), Html(LakesideDetail) }
\* url, id and source of the two records are the same
SameIdentity(before, after) ==
  before.url = after.url /\ before.id = after.id /\ before.source = after.source
\* a step of the enrichment phase keeps the list and the identity of its records, and so
\* does either enricher on the record at hand, whatever the detail page
KeepsIdentity ==
  rpc \in {"enrich99", "enrichnb"} =>
    /\ Len(unique') = Len(unique)
    /\ \A i \in 1..Len(unique) : SameIdentity(unique[i], unique'[i])
    /\ enriched' # enriched =>
         \E record \in {unique[enriched'[Len(enriched')].i]} :
           /\ \A html \in DetailPages99 : SameIdentity(record, Enriched99(record, html))
           /\ \A html \in DetailPagesNb : SameIdentity(record, EnrichedNb(record, html))
\* C30: the enrichment keeps the identity of the records: whatever the detail page,
\* _enrich_99acres_from_detail and _enrich_nobroker_from_detail leave url, id and source
\* of a record as they were, and the enrichment phase of run_scraper neither adds nor
\* removes nor reorders the records of the deduplicated list.
C30_IdentityKept == [][KeepsIdentity]_vars
\* a detail page gave a record another name, and the record kept its url, id and source
C30_Witness ==
  \E k \in 1..Len(enriched) :
    /\ enriched[k].html \in (DetailPages99 \cup DetailPagesNb) \ {PyNone}
    /\ After(k).name # Before(k).name
    /\ SameIdentity(Before(k), After(k))
    /\ Len(unique) = Len(listed)

(***************************************************************************)
(* fetch. The browser first when use_playwright, then up to RETRY_ATTEMPTS *)
(* requests with a sleep between them.                                     *)
(***************************************************************************)
\* lines 26-27
RETRY_ATTEMPTS == 3
RETRY_BACKOFF_SEC == 5
\* requests.get or raise_for_status raised
Failed == <<"failed">>
\* what a request can give: an exception or r.text, which may be empty
Texts == { PyStr(<<>>), PyStr(<<"<","h","t","m","l",">">>) }
\* Python's truth of str | None
Truthy(x) == x # PyNone /\ x # PyStr(<<>>)
\* a wait that does not grow
BackoffFlat(k) == RETRY_BACKOFF_SEC
\* line 143
Backoff(k) == RETRY_BACKOFF_SEC * 2 ^ (k - 1)

FetchInit ==
  /\ use_playwright \in BOOLEAN
  /\ rendered \in {PyNone} \cup Texts
  /\ served \in [1..RETRY_ATTEMPTS -> {Failed} \cup Texts]
  /\ attempt = 1
  /\ trace = <<>>
  /\ fetched = PyNone
  /\ fetch_pc = "start"
FetchIdle ==
  /\ use_playwright = FALSE
  /\ rendered = PyNone
  /\ served = <<>>
  /\ attempt = 1
  /\ trace = <<>>
  /\ fetched = PyNone
  /\ fetch_pc = "idle"
\* lines 129-133: the browser, whose page is returned unless it is None or empty
TryBrowser ==
  /\ fetch_pc = "start"
  /\ trace' = IF use_playwright THEN Append(trace, <<"browser">>) ELSE trace
  /\ IF use_playwright /\ Truthy(rendered)
     THEN fetched' = rendered /\ fetch_pc' = "done"
     ELSE fetched' = fetched /\ fetch_pc' = "http"
  /\ UNCHANGED <<use_playwright, rendered, served, attempt>>
\* lines 135-146: one turn of the loop: the request, and after an exception the sleep
\* when another attempt follows
Attempt ==
  /\ fetch_pc = "http"
  /\ attempt <= RETRY_ATTEMPTS
  /\ IF served[attempt] # Failed
     THEN /\ fetched' = served[attempt]
          /\ fetch_pc' = "done"
          /\ trace' = Append(trace, <<"get", attempt>>)
          /\ UNCHANGED attempt
     ELSE /\ trace' = Append(trace, <<"get", attempt>>)
                        \o (IF attempt < RETRY_ATTEMPTS THEN << <<"sleep", Backoff(attempt)>> >> ELSE <<>>)
          /\ attempt' = attempt + 1
          /\ UNCHANGED <<fetched, fetch_pc>>
  /\ UNCHANGED <<use_playwright, rendered, served>>
\* lines 147-148: the loop ran out
GiveUp ==
  /\ fetch_pc = "http"
  /\ attempt > RETRY_ATTEMPTS
  /\ fetched' = PyNone
  /\ fetch_pc' = "done"
  /\ UNCHANGED <<use_playwright, rendered, served, attempt, trace>>

\* the waits of the trace, in their order
Sleeps == SelectSeq(trace, LAMBDA e : e[1] = "sleep")
\* the numbers of the requests of the trace, in their order
Gets == SelectSeq(trace, LAMBDA e : e[1] = "get")
\* the browser gave no page
BrowserFailed == ~use_playwright \/ ~Truthy(rendered)
\* C28: after the optional browser attempt fetch makes at most RETRY_ATTEMPTS requests,
\* returns the body of the first request that succeeds and makes no further one, waits
\* RETRY_BACKOFF_SEC * 2^(k-1) seconds (5, then 10) only between the failed request k and
\* request k+1 and never after the last one, and returns None exactly when every attempt
\* failed
C28_RetryProtocol ==
  /\ Len(Gets) <= RETRY_ATTEMPTS
  /\ \A k \in 1..Len(Gets) : Gets[k][2] = k
  /\ \A i \in 1..Len(trace) :
       /\ trace[i][1] = "browser" => i = 1 /\ use_playwright
       /\ trace[i][1] = "get" =>
            /\ BrowserFailed
            /\ \A j \in 1..(trace[i][2] - 1) : served[j] = Failed
            /\ trace[i][2] > 1 => trace[i - 1] = <<"sleep", RETRY_BACKOFF_SEC * 2 ^ (trace[i][2] - 2)>>
       /\ trace[i][1] = "sleep" =>
            /\ i > 1 /\ trace[i - 1][1] = "get"
            /\ served[trace[i - 1][2]] = Failed
            /\ trace[i - 1][2] < RETRY_ATTEMPTS
            /\ i < Len(trace) => trace[i + 1] = <<"get", trace[i - 1][2] + 1>>
  /\ \E n \in 0..2 : Sleeps = SubSeq(<< <<"sleep", 5>>, <<"sleep", 10>> >>, 1, n)
  /\ fetch_pc = "done" =>
       /\ trace # <<>> /\ trace[Len(trace)][1] # "sleep"
       /\ fetched = PyNone <=> (BrowserFailed /\ \A k \in 1..RETRY_ATTEMPTS : served[k] = Failed)
       /\ fetched # PyNone =>
            \/ trace = << <<"browser">> >> /\ fetched = rendered
            \/ trace[Len(trace)][1] = "get" /\ fetched = served[trace[Len(trace)][2]]
\* fetch gave up after the browser and three requests, having slept 5 and 10 seconds
C28_Witness ==
  /\ fetch_pc = "done" /\ fetched = PyNone /\ use_playwright
  /\ Len(Gets) = RETRY_ATTEMPTS
  /\ Sleeps = << <<"sleep", 5>>, <<"sleep", 10>> >>
\* the second request gave the page: one sleep, no third request
C28_Witness_Second ==
  /\ fetch_pc = "done" /\ Truthy(fetched) /\ Len(Gets) = 2 /\ Len(Sleeps) = 1

(***************************************************************************)
(* Specifications                                                          *)
(***************************************************************************)
VerifyNext ==
  \/ Verify /\ UNCHANGED <<vars_price, vars_format, vars_pipeline, vars_slug, vars_card, vars_raw, vars_list, vars_fetch>>
  \/ VerifyAgain /\ UNCHANGED <<vars_price, vars_format, vars_pipeline, vars_slug, vars_card, vars_raw, vars_list, vars_fetch>>
PriceNext ==
  \/ Parse /\ UNCHANGED <<vars_verify, vars_format, vars_pipeline, vars_slug, vars_card, vars_raw, vars_list, vars_fetch>>
  \/ ParseLegacy /\ UNCHANGED <<vars_verify, vars_format, vars_pipeline, vars_slug, vars_card, vars_raw, vars_list, vars_fetch>>
SlugNext == Split /\ UNCHANGED <<vars_verify, vars_price, vars_format, vars_pipeline, vars_card, vars_raw, vars_list, vars_fetch>>
CardNext == CardText /\ UNCHANGED <<vars_verify, vars_price, vars_format, vars_pipeline, vars_slug, vars_raw, vars_list, vars_fetch>>
RawNext == ExtractRaw /\ UNCHANGED <<vars_verify, vars_price, vars_format, vars_pipeline, vars_slug, vars_card, vars_list, vars_fetch>>
ListNext == ScrapeList /\ UNCHANGED <<vars_verify, vars_price, vars_format, vars_pipeline, vars_slug, vars_card, vars_raw, vars_fetch>>
FetchNext ==
  \/ TryBrowser /\ UNCHANGED <<vars_verify, vars_price, vars_format, vars_pipeline, vars_slug, vars_card, vars_raw, vars_list>>
  \/ Attempt /\ UNCHANGED <<vars_verify, vars_price, vars_format, vars_pipeline, vars_slug, vars_card, vars_raw, vars_list>>
  \/ GiveUp /\ UNCHANGED <<vars_verify, vars_price, vars_format, vars_pipeline, vars_slug, vars_card, vars_raw, vars_list>>
FormatNext == Format /\ UNCHANGED <<vars_verify, vars_price, vars_pipeline, vars_slug, vars_card, vars_raw, vars_list, vars_fetch>>
Next ==
  \/ ScrapeListing /\ UNCHANGED <<vars_verify, vars_price, vars_format, vars_slug, vars_card, vars_raw, vars_list, vars_fetch>>
  \/ ScrapePage /\ UNCHANGED <<vars_verify, vars_price, vars_format, vars_slug, vars_card, vars_raw, vars_list, vars_fetch>>
  \/ ScrapeNoBroker /\ UNCHANGED <<vars_verify, vars_price, vars_format, vars_slug, vars_card, vars_raw, vars_list, vars_fetch>>
  \/ Deduplicate /\ UNCHANGED <<vars_verify, vars_price, vars_format, vars_slug, vars_card, vars_raw, vars_list, vars_fetch>>
  \/ Enrich99 /\ UNCHANGED <<vars_verify, vars_price, vars_format, vars_slug, vars_card, vars_raw, vars_list, vars_fetch>>
  \/ Checkpoint /\ UNCHANGED <<vars_verify, vars_price, vars_format, vars_slug, vars_card, vars_raw, vars_list, vars_fetch>>
  \/ EnrichNoBroker /\ UNCHANGED <<vars_verify, vars_price, vars_format, vars_slug, vars_card, vars_raw, vars_list, vars_fetch>>
  \/ Return /\ UNCHANGED <<vars_verify, vars_price, vars_format, vars_slug, vars_card, vars_raw, vars_list, vars_fetch>>
  \/ main /\ UNCHANGED <<vars_verify, vars_price, vars_format, vars_slug, vars_card, vars_raw, vars_list, vars_fetch>>

\* the scraper run from main
Init == PipelineInit /\ VerifyIdle /\ PriceIdle /\ FormatIdle /\ SlugIdle /\ CardIdle /\ RawIdle /\ ListIdle /\ FetchIdle
Spec == Init /\ [][Next]_vars
\* verify_and_clean_property on its own
InitVerify == VerifyInit /\ PriceIdle /\ FormatIdle /\ PipelineIdle /\ SlugIdle /\ CardIdle /\ RawIdle /\ ListIdle /\ FetchIdle
SpecVerify == InitVerify /\ [][VerifyNext]_vars
\* parse_price_range of both files on its own
InitPrice == PriceInit /\ VerifyIdle /\ FormatIdle /\ PipelineIdle /\ SlugIdle /\ CardIdle /\ RawIdle /\ ListIdle /\ FetchIdle
SpecPrice == InitPrice /\ [][PriceNext]_vars
\* _format_price_display on its own
InitFormat == FormatInit /\ VerifyIdle /\ PriceIdle /\ PipelineIdle /\ SlugIdle /\ CardIdle /\ RawIdle /\ ListIdle /\ FetchIdle
SpecFormat == InitFormat /\ [][FormatNext]_vars
\* _name_and_locality_from_href on its own
InitSlug == SlugInit /\ VerifyIdle /\ PriceIdle /\ FormatIdle /\ PipelineIdle /\ CardIdle /\ RawIdle /\ ListIdle /\ FetchIdle
SpecSlug == InitSlug /\ [][SlugNext]_vars
\* _card_text_for_link on its own
InitCard == CardInit /\ VerifyIdle /\ PriceIdle /\ FormatIdle /\ PipelineIdle /\ SlugIdle /\ RawIdle /\ ListIdle /\ FetchIdle
SpecCard == InitCard /\ [][CardNext]_vars
\* _extract_from_raw_html on its own
InitRaw == RawInit /\ VerifyIdle /\ PriceIdle /\ FormatIdle /\ PipelineIdle /\ SlugIdle /\ CardIdle /\ ListIdle /\ FetchIdle
SpecRaw == InitRaw /\ [][RawNext]_vars
\* scrape_99acres_list on its own
InitList == ListInit /\ VerifyIdle /\ PriceIdle /\ FormatIdle /\ PipelineIdle /\ SlugIdle /\ CardIdle /\ RawIdle /\ FetchIdle
SpecList == InitList /\ [][ListNext]_vars
InitFetch == FetchInit /\ VerifyIdle /\ PriceIdle /\ FormatIdle /\ PipelineIdle /\ SlugIdle /\ CardIdle /\ RawIdle /\ ListIdle
SpecFetch == InitFetch /\ [][FetchNext]_vars

====
